---- MODULE Spec2Model ----
(***************************************************************************)
(* Verification model of the document-vault encryption core                *)
(* (src/utils/encryption and src/utils/decryption): PBKDF2 key derivation, *)
(* AES-256-GCM buffer, whole-file and stream ciphers, payload validation,  *)
(* error classification and key wiping.                                    *)
(*                                                                         *)
(* Specifications: Spec (the buffer functions), SpecFile (encryptFile and  *)
(* decryptFile), SpecKey (deriveKey), SpecValidate (validatePayload),      *)
(* SpecStream (encryptFileStream and decryptFileStream, one step for each  *)
(* event of their streams), SpecEncrypt (one call of each encrypt entry    *)
(* point), SpecKeyAdvanced (deriveKeyAdvanced), SpecPair (two file calls,  *)
(* each encryptFile or decryptFile, in flight) and SpecStreamFair          *)
(* (SpecStream with the pending stream                                     *)
(* events delivered).                                                      *)
(*                                                                         *)
(* Buffers are sequences of bytes (0..255); base-64 text is a sequence of  *)
(* character codes (0..63 the alphabet, 64 the pad '=', 65 any character   *)
(* outside the alphabet); passwords are sequences of character codes.      *)
(* The primitives of Node's crypto library are modelled as ideal ones:     *)
(* PBKDF2 and the GCM tag are byte digests of their inputs (PBKDF2 of the  *)
(* password as HMAC pads it), and crypto.randomBytes never returns the     *)
(* same value twice.                                                       *)
(***************************************************************************)
EXTENDS Integers, Sequences, FiniteSets, TLC

VARIABLES rng, cur, last, disk

vars == <<rng, cur, last, disk>>

(* ------------------------------ bounds -------------------------------- *)

\* longest plaintext explored
MaxLen == 2

\* number of crypto.randomBytes draws one behaviour may make
MaxDraws == 4

\* the bytes in one chunk a read stream emits
ChunkLen == 1

(* --------------------------- program constants ------------------------ *)

AES_KEY_LENGTH_BYTES == 32

GCM_AUTH_TAG_LENGTH_BYTES == 16

PBKDF2_ITERATIONS == 150000

SALT_LENGTH_BYTES == 16

IV_LENGTH_BYTES == 12

ENCRYPTION_FORMAT_VERSION == 1

\* validatePassword of the encryption module: password.length < 8 is refused
MIN_PASSWORD_LENGTH == 8

(* ------------------------------ buffers ------------------------------- *)

\* the first n bytes of a buffer, and the bytes after them
Take(s, n) ==
    [i \in 1..(IF n < Len(s) THEN n ELSE Len(s)) |-> s[i]]

Drop(s, n) ==
    [i \in 1..(IF n < Len(s) THEN Len(s) - n ELSE 0) |-> s[i + n]]

\* Buffer.alloc(n): n zero bytes; also the content of a buffer after fill(0)
Zeros(n) ==
    [i \in 1..n |-> 0]

\* buffer.fill(0): every byte overwritten, the length kept
Fill0(buf) ==
    Zeros(Len(buf))

AllZero(buf) ==
    \A i \in 1..Len(buf) : buf[i] = 0

\* A faulty secureWipe, which C8 must tell from the real one: the buffer is
\* left as it is.
secureWipeSkipped(buf) ==
    buf

\* secureWipe(buffer): fills a Buffer with zeros
secureWipe(buf) ==
    Fill0(buf)

(* ------------------------------ base-64 ------------------------------- *)

\* the code of the pad character '='
B64Pad == 64

\* three bytes make four characters; one or two bytes left over make two or
\* three characters and the padding
RECURSIVE B64Encode(_)
B64Encode(b) ==
    IF Len(b) = 0 THEN <<>>
    ELSE IF Len(b) = 1 THEN
        <<b[1] \div 4, (b[1] % 4) * 16, B64Pad, B64Pad>>
    ELSE IF Len(b) = 2 THEN
        <<b[1] \div 4, (b[1] % 4) * 16 + (b[2] \div 16), (b[2] % 16) * 4, B64Pad>>
    ELSE
        <<b[1] \div 4, (b[1] % 4) * 16 + (b[2] \div 16),
          (b[2] % 16) * 4 + (b[3] \div 64), b[3] % 64>> \o B64Encode(Drop(b, 3))

\* buf.toString("base64")
toBase64(data) ==
    B64Encode(data)

\* the characters of the alphabet that precede the first pad; characters
\* outside the alphabet are skipped, as Buffer.from(s, "base64") does
RECURSIVE B64Sextets(_)
B64Sextets(t) ==
    IF Len(t) = 0 THEN <<>>
    ELSE IF t[1] = B64Pad THEN <<>>
    ELSE IF t[1] > B64Pad THEN B64Sextets(Drop(t, 1))
    ELSE <<t[1]>> \o B64Sextets(Drop(t, 1))

\* four characters make three bytes; two or three left over make one or two
RECURSIVE B64Decode(_)
B64Decode(c) ==
    IF Len(c) < 2 THEN <<>>
    ELSE IF Len(c) = 2 THEN
        <<c[1] * 4 + (c[2] \div 16)>>
    ELSE IF Len(c) = 3 THEN
        <<c[1] * 4 + (c[2] \div 16), (c[2] % 16) * 16 + (c[3] \div 4)>>
    ELSE
        <<c[1] * 4 + (c[2] \div 16), (c[2] % 16) * 16 + (c[3] \div 4),
          (c[3] % 4) * 64 + c[4]>> \o B64Decode(Drop(c, 4))

\* Buffer.from(base64, "base64")
fromBase64(base64) ==
    B64Decode(B64Sextets(base64))

\* /^[A-Za-z0-9+/]*={0,2}$/ : alphabet characters, then at most two pads
B64Regex(str) ==
    \E k \in 0..2 :
        /\ k <= Len(str)
        /\ \A i \in 1..Len(str) :
            IF i <= Len(str) - k THEN str[i] < B64Pad ELSE str[i] = B64Pad

\* isValidBase64 of the decryption module
isValidBase64(str) ==
    IF Len(str) = 0 THEN FALSE
    ELSE B64Regex(str) /\ Len(str) % 4 = 0

(* ----------------------- the crypto primitives ------------------------ *)

\* sum over i of w(i) * s[i], reduced modulo 256, with w(i) = 2i+1 (odd == 1)
\* or w(i) = i*i+1 (odd == 0)
RECURSIVE WSum(_, _, _)
WSum(s, i, odd) ==
    IF i > Len(s) THEN 0
    ELSE ((IF odd = 1 THEN 2 * i + 1 ELSE i * i + 1) * (s[i] + 1) + WSum(s, i + 1, odd)) % 256

\* an n-byte digest of a byte sequence: changing one byte of s changes it
Digest(s, n) ==
    LET a == WSum(s, 1, 1)
        b == WSum(s, 1, 0)
    IN  [j \in 1..n |-> (a + (2 * j) * b + 7 * j) % 256]

\* The key HMAC works with: a key shorter than the hash's block (64 bytes, as
\* every password here is) is padded with zero bytes up to the block, so
\* trailing zero bytes of the password make no difference.
HmacKey(password) ==
    LET nz == { i \in 1..Len(password) : password[i] # 0 }
    IN  Take(password, IF nz = {} THEN 0
                       ELSE CHOOSE i \in nz : \A j \in nz : j <= i)

\* A faulty derivation, which C5 must tell from the real one: the salt is
\* left out.
PBKDF2Unsalted(password, salt, iterations, keyLength) ==
    Digest(<<Len(HmacKey(password))>> \o HmacKey(password)
             \o <<iterations % 256>>, keyLength)

\* crypto.pbkdf2(password, salt, iterations, keyLength, "sha256"): HMAC keyed
\* with the password, over the salt
PBKDF2(password, salt, iterations, keyLength) ==
    Digest(<<Len(HmacKey(password))>> \o HmacKey(password) \o <<Len(salt)>> \o salt
             \o <<iterations % 256>>, keyLength)

\* crypto.randomBytes(n), the r-th draw of the behaviour: a fresh value
randomBytes(n, r) ==
    [i \in 1..n |-> (37 * r + 11 * i + 1) % 256]

\* the GCM keystream of (key, iv), n bytes
Keystream(key, iv, n) ==
    Digest(key \o iv \o <<255>>, n)

\* the GCM authentication tag of a ciphertext under (key, iv)
GcmTag(key, iv, cipherBytes) ==
    Digest(key \o iv \o <<Len(cipherBytes)>> \o cipherBytes, GCM_AUTH_TAG_LENGTH_BYTES)

\* the messages of the errors the crypto library throws
MsgAuthFail == "Unsupported state or unable to authenticate data"

MsgBadIv == "Invalid initialization vector"

MsgBadKey == "Invalid key length"

MsgBadTag == "Invalid authentication tag length"

\* crypto.createCipheriv / createDecipheriv("aes-256-gcm", key, iv, ...): the
\* message of the error it throws, "" when it returns
CipherInit(key, iv) ==
    IF Len(key) # AES_KEY_LENGTH_BYTES THEN MsgBadKey
    ELSE IF Len(iv) = 0 THEN MsgBadIv
    ELSE ""

\* cipher.update(plain) ++ cipher.final(), then cipher.getAuthTag()
GcmEncrypt(key, iv, plain) ==
    LET ks == Keystream(key, iv, Len(plain))
        ct == [i \in 1..Len(plain) |-> (plain[i] + ks[i]) % 256]
    IN  [cipherBytes |-> ct, authTag |-> GcmTag(key, iv, ct)]

\* A faulty decipher, which C18 must tell from the real one: the ciphertext
\* is returned as the plaintext.
DecipherIdentity(key, iv, authTagBytes, cipherBytes) ==
    IF CipherInit(key, iv) # "" THEN
        [msg |-> CipherInit(key, iv), plaintext |-> <<>>]
    ELSE IF Len(authTagBytes) # GCM_AUTH_TAG_LENGTH_BYTES THEN
        [msg |-> MsgBadTag, plaintext |-> <<>>]
    ELSE IF GcmTag(key, iv, cipherBytes) # authTagBytes THEN
        [msg |-> MsgAuthFail, plaintext |-> <<>>]
    ELSE [msg |-> "", plaintext |-> cipherBytes]

\* createDecipheriv, setAuthTag, update and final, as the try blocks of the
\* decrypt functions run them: the error thrown (msg # "") or the plaintext
Decipher(key, iv, authTagBytes, cipherBytes) ==
    LET ks == Keystream(key, iv, Len(cipherBytes))
    IN  IF CipherInit(key, iv) # "" THEN
            [msg |-> CipherInit(key, iv), plaintext |-> <<>>]
        ELSE IF Len(authTagBytes) # GCM_AUTH_TAG_LENGTH_BYTES THEN
            [msg |-> MsgBadTag, plaintext |-> <<>>]
        ELSE IF GcmTag(key, iv, cipherBytes) # authTagBytes THEN
            [msg |-> MsgAuthFail, plaintext |-> <<>>]
        ELSE
            [msg |-> "",
             plaintext |-> [i \in 1..Len(cipherBytes) |->
                               (cipherBytes[i] + 256 - ks[i]) % 256]]

\* error.message.includes(needle), for the messages above
Includes(msg, needle) ==
    <<msg, needle>> \in
        { <<MsgAuthFail, "Unsupported state">>,
          <<MsgAuthFail, "unable to authenticate">>,
          <<MsgAuthFail, "auth">>,
          <<MsgBadTag, "auth">> }

(* ------------------------------- errors ------------------------------- *)

NoError == [cls |-> "none", code |-> "", msg |-> ""]

\* new DecryptionError(message, code)
DecryptionError(code) ==
    [cls |-> "DecryptionError", code |-> code, msg |-> ""]

\* new Error(message): an error without a code
PlainError(msg) ==
    [cls |-> "Error", code |-> "", msg |-> msg]

DecryptionErrorCode ==
    {"WRONG_PASSWORD", "INTEGRITY_CHECK_FAILED", "INVALID_FORMAT",
     "UNSUPPORTED_VERSION", "MISSING_FIELDS", "FILE_ERROR", "UNKNOWN"}

\* A faulty catch block, which C3 must tell from the real one: the message
\* is not looked at.
ClassifyUnknown(msg) ==
    DecryptionError("UNKNOWN")

\* A faulty catch block, which C30 must tell from the real one: a tag that
\* does not verify is reported as INTEGRITY_CHECK_FAILED.
ClassifyIntegrity(msg) ==
    IF Includes(msg, "unable to authenticate")
    THEN DecryptionError("INTEGRITY_CHECK_FAILED")
    ELSE IF Includes(msg, "auth") THEN DecryptionError("WRONG_PASSWORD")
    ELSE DecryptionError("UNKNOWN")

\* the catch blocks of the decrypt functions: the code given to the error
Classify(msg) ==
    IF Includes(msg, "Unsupported state")
         \/ Includes(msg, "unable to authenticate")
         \/ Includes(msg, "auth")
    THEN DecryptionError("WRONG_PASSWORD")
    ELSE DecryptionError("UNKNOWN")

(* ----------------------------- validation ----------------------------- *)

\* A faulty validatePassword, which C15 must tell from the real one: seven
\* characters are enough.
validatePasswordEncLenient(password) ==
    IF Len(password) = 0 THEN "Password must be a non-empty string."
    ELSE IF Len(password) < MIN_PASSWORD_LENGTH - 1
    THEN "Password must be at least 8 characters long for adequate security."
    ELSE ""

\* validatePassword of the encryption module: "" when accepted, else the
\* message of the Error thrown
validatePasswordEnc(password) ==
    IF Len(password) = 0 THEN "Password must be a non-empty string."
    ELSE IF Len(password) < MIN_PASSWORD_LENGTH
    THEN "Password must be at least 8 characters long for adequate security."
    ELSE ""

\* validatePassword of the decryption module: "" when accepted, else the
\* code of the DecryptionError thrown
validatePasswordDec(password) ==
    IF Len(password) = 0 THEN "MISSING_FIELDS" ELSE ""

RequiredFields == <<"cipherText", "salt", "iv", "authTag", "version">>

\* A faulty validatePayload, which C1 must tell from the real one: the
\* cipherText is checked even when it is empty.
validatePayloadStrict(payload) ==
    IF \E i \in 1..Len(RequiredFields) : RequiredFields[i] \in payload.absent
    THEN "MISSING_FIELDS"
    ELSE IF ~isValidBase64(payload.cipherText) THEN "INVALID_FORMAT"
    ELSE IF ~isValidBase64(payload.salt) THEN "INVALID_FORMAT"
    ELSE IF ~isValidBase64(payload.iv) THEN "INVALID_FORMAT"
    ELSE IF ~isValidBase64(payload.authTag) THEN "INVALID_FORMAT"
    ELSE IF Len(fromBase64(payload.salt)) # SALT_LENGTH_BYTES THEN "INVALID_FORMAT"
    ELSE IF Len(fromBase64(payload.iv)) # IV_LENGTH_BYTES THEN "INVALID_FORMAT"
    ELSE IF Len(fromBase64(payload.authTag)) # GCM_AUTH_TAG_LENGTH_BYTES
    THEN "INVALID_FORMAT"
    ELSE IF payload.version # ENCRYPTION_FORMAT_VERSION THEN "UNSUPPORTED_VERSION"
    ELSE ""

\* A faulty validatePayload, which C13 must tell from the real one: the
\* version is checked before the encodings and the lengths.
validatePayloadVersionFirst(payload) ==
    IF \E i \in 1..Len(RequiredFields) : RequiredFields[i] \in payload.absent
    THEN "MISSING_FIELDS"
    ELSE IF payload.version # ENCRYPTION_FORMAT_VERSION THEN "UNSUPPORTED_VERSION"
    ELSE IF Len(payload.cipherText) > 0 /\ ~isValidBase64(payload.cipherText)
    THEN "INVALID_FORMAT"
    ELSE IF ~isValidBase64(payload.salt) THEN "INVALID_FORMAT"
    ELSE IF ~isValidBase64(payload.iv) THEN "INVALID_FORMAT"
    ELSE IF ~isValidBase64(payload.authTag) THEN "INVALID_FORMAT"
    ELSE IF Len(fromBase64(payload.salt)) # SALT_LENGTH_BYTES THEN "INVALID_FORMAT"
    ELSE IF Len(fromBase64(payload.iv)) # IV_LENGTH_BYTES THEN "INVALID_FORMAT"
    ELSE IF Len(fromBase64(payload.authTag)) # GCM_AUTH_TAG_LENGTH_BYTES
    THEN "INVALID_FORMAT"
    ELSE ""

\* validatePayload: "" when the payload is accepted, else the code of the
\* DecryptionError of the first check that fails.  payload.absent holds the
\* names of the fields that are undefined or null.
validatePayload(payload) ==
    IF \E i \in 1..Len(RequiredFields) : RequiredFields[i] \in payload.absent
    THEN "MISSING_FIELDS"
    ELSE IF Len(payload.cipherText) > 0 /\ ~isValidBase64(payload.cipherText)
    THEN "INVALID_FORMAT"
    ELSE IF ~isValidBase64(payload.salt) THEN "INVALID_FORMAT"
    ELSE IF ~isValidBase64(payload.iv) THEN "INVALID_FORMAT"
    ELSE IF ~isValidBase64(payload.authTag) THEN "INVALID_FORMAT"
    ELSE IF Len(fromBase64(payload.salt)) # SALT_LENGTH_BYTES THEN "INVALID_FORMAT"
    ELSE IF Len(fromBase64(payload.iv)) # IV_LENGTH_BYTES THEN "INVALID_FORMAT"
    ELSE IF Len(fromBase64(payload.authTag)) # GCM_AUTH_TAG_LENGTH_BYTES
    THEN "INVALID_FORMAT"
    ELSE IF payload.version # ENCRYPTION_FORMAT_VERSION THEN "UNSUPPORTED_VERSION"
    ELSE ""

(* --------------------------- key derivation --------------------------- *)

\* an optional Buffer argument: omitted, or given with these bytes
Omitted == [given |-> FALSE, bytes |-> <<>>]

Given(bytes) == [given |-> TRUE, bytes |-> bytes]

\* salt ?? crypto.randomBytes(SALT_LENGTH_BYTES), r the draws made so far
UsedSalt(salt, r) ==
    IF salt.given THEN salt.bytes ELSE randomBytes(SALT_LENGTH_BYTES, r)

\* A faulty deriveKey, which C20 must tell from the real one: the caller's
\* salt is ignored and a fresh one drawn.
deriveKeyEncFreshSalt(password, salt, r) ==
    IF Len(password) = 0 THEN
        [ok |-> FALSE, msg |-> "Password must not be empty.",
         key |-> <<>>, salt |-> <<>>, iterations |-> 0, draws |-> 0]
    ELSE
        [ok |-> TRUE, msg |-> "",
         key |-> PBKDF2(password, randomBytes(SALT_LENGTH_BYTES, r),
                        PBKDF2_ITERATIONS, AES_KEY_LENGTH_BYTES),
         salt |-> randomBytes(SALT_LENGTH_BYTES, r),
         iterations |-> PBKDF2_ITERATIONS,
         draws |-> IF salt.given THEN 0 ELSE 1]

\* deriveKey of the encryption module: {key, salt, iterations}, or the Error
\* thrown for an empty password
deriveKeyEnc(password, salt, r) ==
    IF Len(password) = 0 THEN
        [ok |-> FALSE, msg |-> "Password must not be empty.",
         key |-> <<>>, salt |-> <<>>, iterations |-> 0, draws |-> 0]
    ELSE
        [ok |-> TRUE, msg |-> "",
         key |-> PBKDF2(password, UsedSalt(salt, r), PBKDF2_ITERATIONS,
                        AES_KEY_LENGTH_BYTES),
         salt |-> UsedSalt(salt, r),
         iterations |-> PBKDF2_ITERATIONS,
         draws |-> IF salt.given THEN 0 ELSE 1]

\* deriveKey of the decryption module: the salt is required and non-empty
deriveKeyDec(password, salt) ==
    IF Len(password) = 0 THEN
        [ok |-> FALSE, msg |-> "Password must not be empty.",
         key |-> <<>>, salt |-> <<>>, iterations |-> 0, draws |-> 0]
    ELSE IF Len(salt) = 0 THEN
        [ok |-> FALSE, msg |-> "Salt must be a non-empty Buffer.",
         key |-> <<>>, salt |-> <<>>, iterations |-> 0, draws |-> 0]
    ELSE
        [ok |-> TRUE, msg |-> "",
         key |-> PBKDF2(password, salt, PBKDF2_ITERATIONS, AES_KEY_LENGTH_BYTES),
         salt |-> salt,
         iterations |-> PBKDF2_ITERATIONS,
         draws |-> 0]

\* the hash functions crypto.pbkdf2 is asked for
KnownDigests == {"sha256", "sha512"}

\* crypto.pbkdf2(password, salt, iterations, keyLength, digest) with the
\* checks of its arguments: iterations is an integer >= 1, keyLength an
\* integer >= 0, digest a hash OpenSSL knows.  A keyLength of 0 is accepted
\* and gives a Buffer of no bytes.
pbkdf2(password, salt, iterations, keyLength, digest) ==
    IF iterations < 1 THEN
        [ok |-> FALSE, msg |-> "The value of \"iterations\" is out of range.",
         key |-> <<>>]
    ELSE IF keyLength < 0 THEN
        [ok |-> FALSE, msg |-> "The value of \"keylen\" is out of range.",
         key |-> <<>>]
    ELSE IF digest \notin KnownDigests THEN
        [ok |-> FALSE, msg |-> "Invalid digest", key |-> <<>>]
    ELSE
        [ok |-> TRUE, msg |-> "",
         key |-> IF digest = "sha256"
                 THEN PBKDF2(password, salt, iterations, keyLength)
                 ELSE PBKDF2(password, <<0>> \o salt, iterations, keyLength)]

\* deriveKeyAdvanced of the encryption module
deriveKeyAdvancedEnc(params) ==
    IF Len(params.password) = 0 THEN
        [ok |-> FALSE, msg |-> "Password must not be empty.", key |-> <<>>]
    ELSE IF params.iterations < 1 THEN
        [ok |-> FALSE, msg |-> "Iterations must be at least 1.", key |-> <<>>]
    ELSE IF params.keyLength < 1 THEN
        [ok |-> FALSE, msg |-> "Key length must be at least 1 byte.",
         key |-> <<>>]
    ELSE pbkdf2(params.password, params.salt, params.iterations,
                params.keyLength, params.digest)

\* deriveKeyAdvanced of the decryption module: only the password is looked
\* at before crypto.pbkdf2 is called
deriveKeyAdvancedDec(params) ==
    IF Len(params.password) = 0 THEN
        [ok |-> FALSE, msg |-> "Password must not be empty.", key |-> <<>>]
    ELSE pbkdf2(params.password, params.salt, params.iterations,
                params.keyLength, params.digest)

(* ------------------------- results of a call -------------------------- *)

NoPayload ==
    [cipherText |-> <<>>, salt |-> <<>>, iv |-> <<>>, authTag |-> <<>>,
     version |-> 0, absent |-> {}]

NoRaw ==
    [cipherBytes |-> <<>>, salt |-> <<>>, iv |-> <<>>, authTag |-> <<>>, version |-> 0]

NoMetadata ==
    [salt |-> <<>>, iv |-> <<>>, authTag |-> <<>>, originalFileName |-> "",
     mimeType |-> "", originalSize |-> 0, version |-> 0]

\* What a call leaves behind when its promise settles.
\*   ok, err           resolved, or rejected with err
\*   data, verified    DecryptionResult / DecryptFileResult
\*   payload, raw, metadata   what an encrypt call returns
\*   derives           how many times the call invoked deriveKey
\*   keyDerived        the key as deriveKey returned it (<<>> when none was)
\*   keyFinal          the content of that key Buffer when the promise settles
\*   draws             crypto.randomBytes draws the call made
\*   wrote             the call reached fs.writeFileSync(outputPath, ...)
\*   cleanup           what the catch block of decryptFile did about
\*                     outputPath: found nothing there ("absent"), unlinked
\*                     it ("removed"), or ignored the error of unlinkSync
\*                     ("failed"); "none" when the catch block did not run
NoResult ==
    [ok |-> FALSE, err |-> NoError, data |-> <<>>, verified |-> FALSE,
     size |-> 0, payload |-> NoPayload, raw |-> NoRaw, metadata |-> NoMetadata,
     derives |-> 0, keyDerived |-> <<>>, keyFinal |-> <<>>, draws |-> 0,
     wrote |-> FALSE, cleanup |-> "none"]

Threw(err, derives, keyDerived, keyFinal, draws) ==
    [NoResult EXCEPT !.err = err, !.derives = derives, !.keyDerived = keyDerived,
                     !.keyFinal = keyFinal, !.draws = draws]

(* ---------------------------- buffer cipher --------------------------- *)

\* normalizeInput(data) for a Buffer: "return input"
normalizeInput(input) ==
    input

\* Buffer.from(text, "utf-8") for characters below U+0800
RECURSIVE Utf8Encode(_)
Utf8Encode(text) ==
    IF Len(text) = 0 THEN <<>>
    ELSE IF text[1] < 128 THEN <<text[1]>> \o Utf8Encode(Drop(text, 1))
    ELSE <<192 + (text[1] \div 64), 128 + (text[1] % 64)>>
           \o Utf8Encode(Drop(text, 1))

\* A faulty iv choice, which C4 must tell from the real one: Buffer.alloc in
\* place of a random draw.
UsedIvZero(iv, r) ==
    IF iv.given THEN iv.bytes ELSE Zeros(IV_LENGTH_BYTES)

\* options.iv ?? generateIV(), r the draws made so far
UsedIv(iv, r) ==
    IF iv.given THEN iv.bytes ELSE randomBytes(IV_LENGTH_BYTES, r)

IvDraws(iv) ==
    IF iv.given THEN 0 ELSE 1

\* encryptBufferRaw(data, {password, salt, iv}), r the draws made before it
encryptBufferRaw(data, password, salt, iv, r) ==
    IF validatePasswordEnc(password) # "" THEN
        Threw(PlainError(validatePasswordEnc(password)), 0, <<>>, <<>>, 0)
    ELSE
        LET plainBuffer == normalizeInput(data)
            usedIv == UsedIv(iv, r)
            dk == deriveKeyEnc(password, salt, r + IvDraws(iv))
            draws == IvDraws(iv) + dk.draws
            enc == GcmEncrypt(dk.key, usedIv, plainBuffer)
        IN  IF ~dk.ok THEN Threw(PlainError(dk.msg), 1, <<>>, <<>>, draws)
            ELSE IF CipherInit(dk.key, usedIv) # "" THEN
                \* createCipheriv throws: key.fill(0) is not reached
                Threw(PlainError(CipherInit(dk.key, usedIv)), 1, dk.key, dk.key, draws)
            ELSE
                [NoResult EXCEPT
                    !.ok = TRUE,
                    !.raw = [cipherBytes |-> enc.cipherBytes, salt |-> dk.salt,
                             iv |-> usedIv, authTag |-> enc.authTag,
                             version |-> ENCRYPTION_FORMAT_VERSION],
                    !.derives = 1, !.keyDerived = dk.key,
                    !.keyFinal = Fill0(dk.key), !.draws = draws]

\* encryptBuffer(data, {password, salt, iv}): the same steps, the four
\* binary fields returned base-64 encoded
encryptBuffer(data, password, salt, iv, r) ==
    IF validatePasswordEnc(password) # "" THEN
        Threw(PlainError(validatePasswordEnc(password)), 0, <<>>, <<>>, 0)
    ELSE
        LET plainBuffer == normalizeInput(data)
            usedIv == UsedIv(iv, r)
            dk == deriveKeyEnc(password, salt, r + IvDraws(iv))
            draws == IvDraws(iv) + dk.draws
            enc == GcmEncrypt(dk.key, usedIv, plainBuffer)
        IN  IF ~dk.ok THEN Threw(PlainError(dk.msg), 1, <<>>, <<>>, draws)
            ELSE IF CipherInit(dk.key, usedIv) # "" THEN
                Threw(PlainError(CipherInit(dk.key, usedIv)), 1, dk.key, dk.key, draws)
            ELSE
                [NoResult EXCEPT
                    !.ok = TRUE,
                    !.payload = [cipherText |-> toBase64(enc.cipherBytes),
                                 salt |-> toBase64(dk.salt),
                                 iv |-> toBase64(usedIv),
                                 authTag |-> toBase64(enc.authTag),
                                 version |-> ENCRYPTION_FORMAT_VERSION,
                                 absent |-> {}],
                    !.derives = 1, !.keyDerived = dk.key,
                    !.keyFinal = Fill0(dk.key), !.draws = draws]

\* the try / catch / finally the three whole-buffer decrypt functions share:
\* decipher, classify what it throws, wipe the key in the finally block
DecipherAndWipe(key, ivBytes, authTagBytes, cipherBytes) ==
    LET d == Decipher(key, ivBytes, authTagBytes, cipherBytes)
    IN  IF d.msg # "" THEN Threw(Classify(d.msg), 1, key, secureWipe(key), 0)
        ELSE [NoResult EXCEPT !.ok = TRUE, !.data = d.plaintext, !.verified = TRUE,
                              !.size = Len(d.plaintext),
                              !.derives = 1, !.keyDerived = key,
                              !.keyFinal = secureWipe(key)]

\* A faulty choice of what to wipe, which C23 must tell from the real one:
\* the salt is wiped along with the key.
WipedBuffersWithSalt(op) ==
    IF op = "validatePayload" THEN {} ELSE {"key", "salt"}

\* the Buffers a function of the decryption module fills with zeros: the key
\* deriveKey returned, handed to secureWipe; validatePayload writes nothing
WipedBuffers(op) ==
    IF op = "validatePayload" THEN {} ELSE {"key"}

\* the Buffers a function works on that are the caller's own: decryptBufferRaw
\* passes payload.salt, payload.iv, payload.authTag and payload.cipherBytes
\* on as they are, the other functions work on what fromBase64 and
\* readFileSync returned; the key is pbkdf2's Buffer in all of them
CallerBuffers(op) ==
    IF op = "decryptBufferRaw" THEN {"salt", "iv", "authTag", "cipherBytes"}
    ELSE {}

\* the record a function was given, as the caller finds it afterwards
ArgumentAfter(op, subject) ==
    [f \in DOMAIN subject |->
       IF f \in WipedBuffers(op) \cap CallerBuffers(op) THEN Fill0(subject[f])
       ELSE subject[f]]

\* A faulty decryptBuffer, which C6 must tell from the real one: the payload
\* is not validated.
decryptBufferUnvalidated(payload, password) ==
    IF validatePasswordDec(password) # "" THEN
        Threw(DecryptionError(validatePasswordDec(password)), 0, <<>>, <<>>, 0)
    ELSE
        LET dk == deriveKeyDec(password, fromBase64(payload.salt))
        IN  IF ~dk.ok THEN Threw(PlainError(dk.msg), 1, <<>>, <<>>, 0)
            ELSE DecipherAndWipe(dk.key, fromBase64(payload.iv),
                                 fromBase64(payload.authTag),
                                 fromBase64(payload.cipherText))

\* decryptBuffer(payload, {password})
decryptBuffer(payload, password) ==
    IF validatePasswordDec(password) # "" THEN
        Threw(DecryptionError(validatePasswordDec(password)), 0, <<>>, <<>>, 0)
    ELSE IF validatePayload(payload) # "" THEN
        Threw(DecryptionError(validatePayload(payload)), 0, <<>>, <<>>, 0)
    ELSE
        LET cipherBytes == fromBase64(payload.cipherText)
            saltBytes == fromBase64(payload.salt)
            ivBytes == fromBase64(payload.iv)
            authTagBytes == fromBase64(payload.authTag)
            dk == deriveKeyDec(password, saltBytes)
        IN  IF ~dk.ok THEN Threw(PlainError(dk.msg), 1, <<>>, <<>>, 0)
            ELSE DecipherAndWipe(dk.key, ivBytes, authTagBytes, cipherBytes)

\* decryptBufferRaw(payload, {password}): no validatePayload call
decryptBufferRaw(payload, password) ==
    IF validatePasswordDec(password) # "" THEN
        Threw(DecryptionError(validatePasswordDec(password)), 0, <<>>, <<>>, 0)
    ELSE
        LET dk == deriveKeyDec(password, payload.salt)
        IN  IF ~dk.ok THEN Threw(PlainError(dk.msg), 1, <<>>, <<>>, 0)
            ELSE DecipherAndWipe(dk.key, payload.iv, payload.authTag,
                                 payload.cipherBytes)

(* ------------------------------- files -------------------------------- *)

\* the paths the callers use: a document, its encrypted copy, the place the
\* decrypted copy goes and the directory of that place
InPath == "doc.pdf"

EncPath == "doc.pdf.enc"

OutDir == "out"

OutPath == "out/doc.pdf"

Paths == {InPath, EncPath, OutDir, OutPath}

NoEntry == [kind |-> "none", data |-> <<>>]

FileEntry(data) == [kind |-> "file", data |-> data]

DirEntry == [kind |-> "dir", data |-> <<>>]

Entry(d, p) ==
    IF p \in DOMAIN d THEN d[p] ELSE NoEntry

\* fs.existsSync(p)
existsSync(d, p) ==
    Entry(d, p).kind # "none"

\* A faulty isFile, which C22 must tell from the real one: a directory
\* passes for a file.
isFileOrDirectory(d, p) ==
    Entry(d, p).kind # "none"

\* fs.statSync(p).isFile()
isFile(d, p) ==
    Entry(d, p).kind = "file"

\* fs.readFileSync(p)
readFileSync(d, p) ==
    Entry(d, p).data

\* path.dirname(p), "." being the working directory
dirname(p) ==
    IF p = OutPath THEN OutDir ELSE "."

\* path.basename(p)
basename(p) ==
    IF p = OutPath THEN InPath ELSE p

\* path.extname(p).toLowerCase()
extname(p) ==
    CASE p = InPath -> ".pdf"
      [] p = OutPath -> ".pdf"
      [] p = EncPath -> ".enc"
      [] OTHER -> ""

\* guessMimeType(filePath): the table's entry, else application/octet-stream
guessMimeType(filePath) ==
    CASE extname(filePath) = ".pdf" -> "application/pdf"
      [] extname(filePath) = ".txt" -> "text/plain"
      [] extname(filePath) = ".json" -> "application/json"
      [] extname(filePath) = ".png" -> "image/png"
      [] extname(filePath) = ".zip" -> "application/zip"
      [] OTHER -> "application/octet-stream"

\* What the file system does when asked: whether mkdirSync and unlinkSync
\* succeed, and whether writeFileSync writes all ("ok"), throws having
\* written nothing ("fail") or throws having written a part ("partial").
FsOutcomes ==
    [mkdir : BOOLEAN, write : {"ok", "fail", "partial"}, unlink : BOOLEAN]

MsgMkdir == "EACCES: permission denied, mkdir"

MsgWrite == "ENOSPC: no space left on device, write"

MsgIsDir == "EISDIR: illegal operation on a directory, open"

\* if (!fs.existsSync(outputDir)) fs.mkdirSync(outputDir, {recursive: true}):
\* the files afterwards and the message of the error thrown, "" when none
EnsureDir(d, outputDir, env) ==
    IF outputDir = "." \/ existsSync(d, outputDir) THEN [disk |-> d, msg |-> ""]
    ELSE IF env.mkdir THEN [disk |-> [d EXCEPT ![outputDir] = DirEntry], msg |-> ""]
    ELSE [disk |-> d, msg |-> MsgMkdir]

\* fs.writeFileSync(p, data)
writeFileSync(d, p, data, env) ==
    IF Entry(d, p).kind = "dir" THEN [disk |-> d, msg |-> MsgIsDir]
    ELSE IF env.write = "ok" THEN
        [disk |-> [d EXCEPT ![p] = FileEntry(data)], msg |-> ""]
    ELSE IF env.write = "partial" THEN
        [disk |-> [d EXCEPT ![p] = FileEntry(Take(data, Len(data) - 1))],
         msg |-> MsgWrite]
    ELSE [disk |-> d, msg |-> MsgWrite]

\* A faulty cleanup, which C10 must tell from the real one: nothing is
\* unlinked.
CleanupSkipped(d, p, env) ==
    d

\* if (fs.existsSync(p)) { try { fs.unlinkSync(p) } catch { } }: the files
\* afterwards; an error of unlinkSync is ignored
Cleanup(d, p, env) ==
    IF ~existsSync(d, p) THEN d
    ELSE IF Entry(d, p).kind = "file" /\ env.unlink THEN [d EXCEPT ![p] = NoEntry]
    ELSE d

(* ----------------------------- file cipher ---------------------------- *)

\* encryptFile(inputPath, outputPath, {password, salt, iv}): what the call
\* leaves behind (res) and the files afterwards (disk)
encryptFile(d, inputPath, outputPath, password, salt, iv, r, env) ==
    IF validatePasswordEnc(password) # "" THEN
        [res |-> Threw(PlainError(validatePasswordEnc(password)), 0, <<>>, <<>>, 0),
         disk |-> d]
    ELSE IF ~existsSync(d, inputPath) THEN
        [res |-> Threw(PlainError("Input file not found"), 0, <<>>, <<>>, 0),
         disk |-> d]
    ELSE IF ~isFile(d, inputPath) THEN
        [res |-> Threw(PlainError("Input path is not a file"), 0, <<>>, <<>>, 0),
         disk |-> d]
    ELSE
        LET plainBuffer == readFileSync(d, inputPath)
            encrypted == encryptBufferRaw(plainBuffer, password, salt, iv, r)
            made == EnsureDir(d, dirname(outputPath), env)
            written == writeFileSync(made.disk, outputPath,
                                     encrypted.raw.cipherBytes, env)
        IN  IF ~encrypted.ok THEN [res |-> encrypted, disk |-> d]
            ELSE IF made.msg # "" THEN
                [res |-> [encrypted EXCEPT !.ok = FALSE, !.raw = NoRaw,
                                           !.err = PlainError(made.msg)],
                 disk |-> made.disk]
            ELSE IF written.msg # "" THEN
                [res |-> [encrypted EXCEPT !.ok = FALSE, !.raw = NoRaw,
                                           !.err = PlainError(written.msg),
                                           !.wrote = TRUE],
                 disk |-> written.disk]
            ELSE
                [res |-> [encrypted EXCEPT
                            !.raw = NoRaw,
                            !.wrote = TRUE,
                            !.metadata =
                               [salt |-> toBase64(encrypted.raw.salt),
                                iv |-> toBase64(encrypted.raw.iv),
                                authTag |-> toBase64(encrypted.raw.authTag),
                                originalFileName |-> basename(inputPath),
                                mimeType |-> guessMimeType(inputPath),
                                originalSize |-> Len(plainBuffer),
                                version |-> ENCRYPTION_FORMAT_VERSION]],
                 disk |-> written.disk]

\* the catch and finally blocks of decryptFile: the partial output is
\* removed, the error classified, the key wiped
DecryptFileFailed(d, outputPath, msg, key, wrote, env) ==
    [res |-> [Threw(Classify(msg), 1, key, secureWipe(key), 0)
                EXCEPT !.wrote = wrote,
                       !.cleanup = IF ~existsSync(d, outputPath) THEN "absent"
                                   ELSE IF env.unlink THEN "removed"
                                   ELSE "failed"],
     disk |-> Cleanup(d, outputPath, env)]

\* decryptFile(inputPath, outputPath, metadata, {password})
decryptFile(d, inputPath, outputPath, metadata, password, env) ==
    IF validatePasswordDec(password) # "" THEN
        [res |-> Threw(DecryptionError(validatePasswordDec(password)),
                       0, <<>>, <<>>, 0),
         disk |-> d]
    ELSE IF ~existsSync(d, inputPath) \/ ~isFile(d, inputPath) THEN
        [res |-> Threw(DecryptionError("FILE_ERROR"), 0, <<>>, <<>>, 0), disk |-> d]
    ELSE
        LET saltBytes == fromBase64(metadata.salt)
            ivBytes == fromBase64(metadata.iv)
            authTagBytes == fromBase64(metadata.authTag)
            cipherBytes == readFileSync(d, inputPath)
            dk == deriveKeyDec(password, saltBytes)
            dec == Decipher(dk.key, ivBytes, authTagBytes, cipherBytes)
            made == EnsureDir(d, dirname(outputPath), env)
            written == writeFileSync(made.disk, outputPath, dec.plaintext, env)
        IN  IF ~dk.ok THEN
                [res |-> Threw(PlainError(dk.msg), 1, <<>>, <<>>, 0), disk |-> d]
            ELSE IF dec.msg # "" THEN
                DecryptFileFailed(d, outputPath, dec.msg, dk.key, FALSE, env)
            ELSE IF made.msg # "" THEN
                DecryptFileFailed(made.disk, outputPath, made.msg, dk.key, FALSE, env)
            ELSE IF written.msg # "" THEN
                DecryptFileFailed(written.disk, outputPath, written.msg, dk.key,
                                  TRUE, env)
            ELSE
                [res |-> [NoResult EXCEPT
                            !.ok = TRUE, !.verified = TRUE,
                            !.size = Len(dec.plaintext),
                            !.metadata =
                               [NoMetadata EXCEPT
                                  !.originalFileName = metadata.originalFileName,
                                  !.mimeType = metadata.mimeType],
                            !.derives = 1, !.keyDerived = dk.key,
                            !.keyFinal = secureWipe(dk.key), !.wrote = TRUE],
                 disk |-> written.disk]

(* ---------------------------- stream cipher --------------------------- *)

\* The streams of an encryptFileStream or decryptFileStream call in flight:
\* readStream.pipe(cipher).pipe(writeStream).
\*   active     the Promise executor has run and the streams are piped
\*   decrypt    the transform is a decipher
\*   input      the content of inputPath
\*   total      totalBytes = stat.size
\*   nread      the bytes readStream has emitted, which the cipher has
\*              transformed
\*   nwritten   the bytes of the cipher's output written to outputPath
\*   rstate     readStream: "flowing", "ended" or "error"
\*   cstate     the cipher: "active", "ended" (final() returned) or "error"
\*              (final() failed to authenticate)
\*   wstate     writeStream: "opening" (its fs.open is pending), "open",
\*              "failed" (it emitted 'error'), "finished" or "closed"
\*   destroyed  writeStream.destroy() was called
\*   key        the content of the key Buffer
\*   ckey, iv, tag, salt   the cipher's copy of the key, the iv, the tag given
\*              to setAuthTag, the salt of the metadata
\*   reports    the calls of onProgress: bytesProcessed, totalBytes and
\*              whether the promise had settled by then
NoStream ==
    [active |-> FALSE, decrypt |-> FALSE, input |-> <<>>, total |-> 0,
     nread |-> 0, nwritten |-> 0, rstate |-> "none", cstate |-> "none",
     wstate |-> "none", destroyed |-> FALSE, key |-> <<>>, ckey |-> <<>>,
     iv |-> <<>>, tag |-> <<>>, salt |-> <<>>, reports |-> <<>>]

\* createReadStream, createWriteStream and the pipes, for a cipher made of
\* key and iv
OpenStreams(decrypt, input, key, iv, tag, salt) ==
    [NoStream EXCEPT !.active = TRUE, !.decrypt = decrypt, !.input = input,
                     !.total = Len(input), !.rstate = "flowing",
                     !.cstate = "active", !.wstate = "opening", !.key = key,
                     !.ckey = key, !.iv = iv, !.tag = tag, !.salt = salt]

\* A faulty transform, which C17 must tell from the real one: the keystream
\* starts anew with every chunk.
CipherUpdateRestarting(st, from, to) ==
    LET ks == Keystream(st.ckey, st.iv, to - from)
    IN  [i \in 1..(to - from) |->
           IF st.decrypt THEN (st.input[from + i] + 256 - ks[i]) % 256
           ELSE (st.input[from + i] + ks[i]) % 256]

\* cipher.update(chunk) for the chunk that holds the bytes from+1..to of
\* the input
CipherUpdate(st, from, to) ==
    LET ks == Keystream(st.ckey, st.iv, to)
    IN  [i \in 1..(to - from) |->
           IF st.decrypt THEN (st.input[from + i] + 256 - ks[from + i]) % 256
           ELSE (st.input[from + i] + ks[from + i]) % 256]

\* A faulty tag, which C27 must tell from the real one: it is taken before
\* the last byte has passed through the cipher.
CipherTextSeenEarly(st) ==
    IF st.decrypt THEN Take(st.input, st.nread)
    ELSE CipherUpdate(st, 0, IF st.nread > 0 THEN st.nread - 1 ELSE 0)

\* the ciphertext that has passed through the cipher when final() runs
CipherTextSeen(st) ==
    IF st.decrypt THEN Take(st.input, st.nread) ELSE CipherUpdate(st, 0, st.nread)

\* encryptFileStream up to the return of the Promise: what has been thrown
\* by then (res), the files (disk) and the streams (stream)
encryptFileStream(d, inputPath, outputPath, password, salt, iv, r, env) ==
    IF validatePasswordEnc(password) # "" THEN
        [res |-> Threw(PlainError(validatePasswordEnc(password)), 0, <<>>, <<>>, 0),
         disk |-> d, stream |-> NoStream]
    ELSE IF ~existsSync(d, inputPath) THEN
        [res |-> Threw(PlainError("Input file not found"), 0, <<>>, <<>>, 0),
         disk |-> d, stream |-> NoStream]
    ELSE IF ~isFile(d, inputPath) THEN
        [res |-> Threw(PlainError("Input path is not a file"), 0, <<>>, <<>>, 0),
         disk |-> d, stream |-> NoStream]
    ELSE
        LET usedIv == UsedIv(iv, r)
            dk == deriveKeyEnc(password, salt, r + IvDraws(iv))
            draws == IvDraws(iv) + dk.draws
            made == EnsureDir(d, dirname(outputPath), env)
        IN  IF ~dk.ok THEN
                [res |-> Threw(PlainError(dk.msg), 1, <<>>, <<>>, draws),
                 disk |-> d, stream |-> NoStream]
            ELSE IF CipherInit(dk.key, usedIv) # "" THEN
                [res |-> Threw(PlainError(CipherInit(dk.key, usedIv)), 1,
                               dk.key, dk.key, draws),
                 disk |-> d, stream |-> NoStream]
            ELSE IF made.msg # "" THEN
                [res |-> Threw(PlainError(made.msg), 1, dk.key, dk.key, draws),
                 disk |-> made.disk, stream |-> NoStream]
            ELSE
                [res |-> [NoResult EXCEPT !.derives = 1, !.keyDerived = dk.key,
                                          !.keyFinal = dk.key, !.draws = draws],
                 disk |-> made.disk,
                 stream |-> OpenStreams(FALSE, readFileSync(d, inputPath), dk.key,
                                        usedIv, <<>>, dk.salt)]

\* decryptFileStream up to the return of the Promise
decryptFileStream(d, inputPath, outputPath, metadata, password, env) ==
    IF validatePasswordDec(password) # "" THEN
        [res |-> Threw(DecryptionError(validatePasswordDec(password)),
                       0, <<>>, <<>>, 0),
         disk |-> d, stream |-> NoStream]
    ELSE IF ~existsSync(d, inputPath) \/ ~isFile(d, inputPath) THEN
        [res |-> Threw(DecryptionError("FILE_ERROR"), 0, <<>>, <<>>, 0),
         disk |-> d, stream |-> NoStream]
    ELSE
        LET saltBytes == fromBase64(metadata.salt)
            ivBytes == fromBase64(metadata.iv)
            authTagBytes == fromBase64(metadata.authTag)
            dk == deriveKeyDec(password, saltBytes)
            made == EnsureDir(d, dirname(outputPath), env)
        IN  IF ~dk.ok THEN
                [res |-> Threw(PlainError(dk.msg), 1, <<>>, <<>>, 0),
                 disk |-> d, stream |-> NoStream]
            ELSE IF CipherInit(dk.key, ivBytes) # "" THEN
                \* createDecipheriv throws outside any try
                [res |-> Threw(PlainError(CipherInit(dk.key, ivBytes)), 1,
                               dk.key, dk.key, 0),
                 disk |-> d, stream |-> NoStream]
            ELSE IF Len(authTagBytes) # GCM_AUTH_TAG_LENGTH_BYTES THEN
                \* so does setAuthTag
                [res |-> Threw(PlainError(MsgBadTag), 1, dk.key, dk.key, 0),
                 disk |-> d, stream |-> NoStream]
            ELSE IF made.msg # "" THEN
                [res |-> Threw(PlainError(made.msg), 1, dk.key, dk.key, 0),
                 disk |-> made.disk, stream |-> NoStream]
            ELSE
                [res |-> [NoResult EXCEPT !.derives = 1, !.keyDerived = dk.key,
                                          !.keyFinal = dk.key],
                 disk |-> made.disk,
                 stream |-> OpenStreams(TRUE, readFileSync(d, inputPath), dk.key,
                                        ivBytes, authTagBytes, saltBytes)]

\* A faulty 'data' handler, which C19 must tell from the real one:
\* bytesProcessed = chunk.length in place of bytesProcessed += chunk.length.
ProgressReportChunk(st, n, settled) ==
    [bytesProcessed |-> n, totalBytes |-> st.total, settled |-> settled]

\* readStream.on("data"): bytesProcessed += chunk.length;
\* onProgress?.(bytesProcessed, totalBytes), for a chunk of n bytes
ProgressReport(st, n, settled) ==
    [bytesProcessed |-> st.nread + n, totalBytes |-> st.total, settled |-> settled]

\* the promise of the call has been resolved or rejected
Settled(call) ==
    call.res.ok \/ call.res.err.cls # "none"

\* A faulty promise, which C28 must tell from the real one: a later reject
\* replaces the outcome.
RejectAgain(call, err) ==
    [call EXCEPT !.res.ok = FALSE, !.res.verified = FALSE, !.res.err = err,
                 !.res.keyFinal = call.stream.key]

\* reject(err): the first settlement is the one that counts
Reject(call, err) ==
    IF Settled(call) THEN call
    ELSE [call EXCEPT !.res.err = err, !.res.keyFinal = call.stream.key]

\* the 'error' handlers of readStream and writeStream: the key is zeroed
\* and the promise rejected, with FILE_ERROR by decryptFileStream and with a
\* plain Error by encryptFileStream
StreamFailed(call, what) ==
    LET wiped == [call EXCEPT !.stream.key = IF call.stream.decrypt
                                             THEN secureWipe(call.stream.key)
                                             ELSE Fill0(call.stream.key)]
    IN  Reject(wiped, IF call.stream.decrypt THEN DecryptionError("FILE_ERROR")
                      ELSE PlainError(what))

\* some event of the streams is still to come
StreamBusy(st) ==
    /\ st.active
    /\ \/ st.wstate = "opening"
       \/ st.rstate = "flowing"
       \/ st.wstate = "open" /\ st.nwritten < st.nread
       \/ st.wstate = "open" /\ st.cstate = "ended"

(* ------------------------- the callers' inputs ------------------------ *)

\* the plaintexts: the prefixes of a message, the empty one included
Message(n) ==
    [i \in 1..n |-> (72 + 33 * i) % 256]

Plaintexts ==
    { Message(n) : n \in 0..MaxLen }

\* "password", "passwore", "pw", "passwor" and the empty string
PwA == <<112, 97, 115, 115, 119, 111, 114, 100>>

PwB == <<112, 97, 115, 115, 119, 111, 114, 101>>

PwShort == <<112, 119>>

PwEmpty == <<>>

\* "password\u0000"
PwNul == PwA \o <<0>>

Pw7 == Take(PwA, MIN_PASSWORD_LENGTH - 1)

\* the passwords given to the encrypt calls, and to the decrypt calls
Passwords ==
    {PwA, PwB, PwShort, Pw7, PwEmpty}

DecryptPasswords ==
    Passwords \cup {PwNul}

\* the salt and iv a caller injects: none, well-formed ones, a salt of 8
\* bytes, an iv of no bytes
SaltA == [i \in 1..SALT_LENGTH_BYTES |-> 2 * i]

\* a second salt, one byte away from the first
SaltB == [SaltA EXCEPT ![SALT_LENGTH_BYTES] = 33]

IvA == [i \in 1..IV_LENGTH_BYTES |-> 3 * i]

Injections ==
    { <<Omitted, Omitted>>, <<Given(SaltA), Given(IvA)>>,
      <<Given(Take(SaltA, 8)), Given(IvA)>>, <<Given(SaltA), Given(<<>>)>> }

\* what is done to a stored record before it is handed to a decrypt call
NoAttack == [kind |-> "none", pos |-> 0, delta |-> 0]

Deltas == {1, 255}

FlipAt(buf, pos, delta) ==
    [i \in 1..Len(buf) |-> IF i = pos THEN (buf[i] + delta) % 256 ELSE buf[i]]

\* the attacks on a record whose ciphertext has n bytes
Attacks(n) ==
    {NoAttack}
      \cup { [kind |-> "flipCt", pos |-> i, delta |-> d] : i \in 1..n, d \in Deltas }
      \cup { [kind |-> "flipTag", pos |-> i, delta |-> d] :
               i \in 1..GCM_AUTH_TAG_LENGTH_BYTES, d \in Deltas }
      \cup { [kind |-> k, pos |-> 0, delta |-> 0] :
               k \in {"version", "shortSalt", "emptySalt", "emptyIv", "shortTag"} }

\* the record after the attack (the tests flip a byte with ^= 0xff and set
\* encrypted.version = 999)
TamperRaw(raw, a) ==
    CASE a.kind = "flipCt" ->
           [raw EXCEPT !.cipherBytes = FlipAt(raw.cipherBytes, a.pos, a.delta)]
      [] a.kind = "flipTag" ->
           [raw EXCEPT !.authTag = FlipAt(raw.authTag, a.pos, a.delta)]
      [] a.kind = "version" -> [raw EXCEPT !.version = raw.version + 1]
      [] a.kind = "shortSalt" -> [raw EXCEPT !.salt = Take(raw.salt, 8)]
      [] a.kind = "emptySalt" -> [raw EXCEPT !.salt = <<>>]
      [] a.kind = "emptyIv" -> [raw EXCEPT !.iv = <<>>]
      [] a.kind = "shortTag" -> [raw EXCEPT !.authTag = Take(raw.authTag, 8)]
      [] OTHER -> raw

\* an EncryptedPayload decoded to its bytes, and encoded back
RawOf(payload) ==
    [cipherBytes |-> fromBase64(payload.cipherText), salt |-> fromBase64(payload.salt),
     iv |-> fromBase64(payload.iv), authTag |-> fromBase64(payload.authTag),
     version |-> payload.version]

PayloadOf(raw) ==
    [cipherText |-> toBase64(raw.cipherBytes), salt |-> toBase64(raw.salt),
     iv |-> toBase64(raw.iv), authTag |-> toBase64(raw.authTag),
     version |-> raw.version, absent |-> {}]

\* The defects of a payload handed to validatePayload.
\*   absent     the required fields that are undefined or null
\*   malformed  the fields whose text is no base-64: junk is appended to it
\*   short      the fields that decode to 8 bytes
\*   junk       what is appended: a character outside the alphabet, one
\*              character too many, or four pad characters
\*   version    the version field
\*   empty      the cipherText is that of an empty plaintext
NoDefects ==
    [absent |-> {}, malformed |-> {}, short |-> {}, junk |-> <<>>,
     version |-> ENCRYPTION_FORMAT_VERSION, empty |-> FALSE]

AbsentSets ==
    {{}} \cup { {RequiredFields[i]} : i \in 1..Len(RequiredFields) }
         \cup {{"salt", "version"}, {"cipherText", "authTag"}}

Junks ==
    {<<65>>, <<1>>, <<B64Pad, B64Pad, B64Pad, B64Pad>>}

Defects ==
    [absent : AbsentSets, malformed : SUBSET {"cipherText", "salt", "iv", "authTag"},
     short : SUBSET {"salt", "iv", "authTag"}, junk : Junks,
     version : {ENCRYPTION_FORMAT_VERSION, ENCRYPTION_FORMAT_VERSION + 1},
     empty : BOOLEAN]

\* the text of one field of the payload with these defects
FieldText(field, d) ==
    LET good == CASE field = "cipherText" -> IF d.empty THEN <<>> ELSE Message(MaxLen)
                  [] field = "salt" -> SaltA
                  [] field = "iv" -> IvA
                  [] OTHER -> Zeros(GCM_AUTH_TAG_LENGTH_BYTES)
        bytes == IF field \in d.short THEN Take(good, 8) ELSE good
    IN  IF field \in d.malformed THEN toBase64(bytes) \o d.junk ELSE toBase64(bytes)

DefectivePayload(d) ==
    [cipherText |-> FieldText("cipherText", d), salt |-> FieldText("salt", d),
     iv |-> FieldText("iv", d), authTag |-> FieldText("authTag", d),
     version |-> d.version, absent |-> d.absent]

(* ------------------------------- state -------------------------------- *)

\* the KeyDerivationParams of a deriveKeyAdvanced call
NoParams ==
    [password |-> <<>>, salt |-> <<>>, iterations |-> 0, keyLength |-> 0,
     digest |-> ""]

\* A call and what it left behind.  subject is the record a decrypt call was
\* given, attack what had been done to the stored record to obtain it, fsOk
\* whether the file system was ready to make directories and write files.
NoCall ==
    [op |-> "none", data |-> <<>>, password |-> <<>>, salt |-> Omitted,
     iv |-> Omitted, attack |-> NoAttack, subject |-> NoRaw,
     inputPath |-> "", outputPath |-> "", module |-> "", res |-> NoResult,
     defects |-> NoDefects, fsOk |-> TRUE, stream |-> NoStream,
     params |-> NoParams]

NoDisk == [p \in {} |-> 0]

\* rng   the number of crypto.randomBytes draws made so far
\* cur   the stored record: the last encrypt call that has returned a record
\*       to the caller
\* last  the call whose promise has just settled, NoCall while the caller is idle
\* disk  the files
InitBuffers ==
    /\ rng = 0
    /\ cur = NoCall
    /\ last = NoCall
    /\ disk = NoDisk

\* the caller takes the result of the call it awaited, once the streams of
\* the call have come to rest; a record an encrypt call returned becomes the
\* stored record
Resume ==
    /\ last.op # "none"
    /\ ~StreamBusy(last.stream)
    /\ cur' = IF last.res.ok /\ last.op \in {"encryptBuffer", "encryptBufferRaw",
                                             "encryptFile", "encryptFileStream",
                                             "deriveKey"}
              THEN last ELSE cur
    /\ last' = NoCall
    /\ UNCHANGED <<rng, disk>>

\* the draws a call with these options makes
DrawsOf(salt, iv) ==
    (IF salt.given THEN 0 ELSE 1) + (IF iv.given THEN 0 ELSE 1)

EncryptBuffer ==
    /\ last.op = "none"
    /\ \E data \in Plaintexts, password \in Passwords, inj \in Injections :
        LET res == encryptBuffer(data, password, inj[1], inj[2], rng)
        IN  /\ rng + DrawsOf(inj[1], inj[2]) <= MaxDraws
            /\ last' = [NoCall EXCEPT !.op = "encryptBuffer", !.data = data,
                                      !.password = password, !.salt = inj[1],
                                      !.iv = inj[2], !.res = res]
            /\ rng' = rng + res.draws
    /\ UNCHANGED <<cur, disk>>

EncryptBufferRaw ==
    /\ last.op = "none"
    /\ \E data \in Plaintexts, password \in Passwords, inj \in Injections :
        LET res == encryptBufferRaw(data, password, inj[1], inj[2], rng)
        IN  /\ rng + DrawsOf(inj[1], inj[2]) <= MaxDraws
            /\ last' = [NoCall EXCEPT !.op = "encryptBufferRaw", !.data = data,
                                      !.password = password, !.salt = inj[1],
                                      !.iv = inj[2], !.res = res]
            /\ rng' = rng + res.draws
    /\ UNCHANGED <<cur, disk>>

\* the record a decrypt call is handed: the one the stored call returned,
\* for encryptFile the metadata together with the bytes of the encrypted file
StoredRaw(call, d) ==
    CASE call.op = "encryptBuffer" -> RawOf(call.res.payload)
      [] call.op = "encryptBufferRaw" -> call.res.raw
      [] call.op \in {"encryptFile", "encryptFileStream"} ->
           [cipherBytes |-> readFileSync(d, call.outputPath),
            salt |-> fromBase64(call.res.metadata.salt),
            iv |-> fromBase64(call.res.metadata.iv),
            authTag |-> fromBase64(call.res.metadata.authTag),
            version |-> call.res.metadata.version]
      [] OTHER -> NoRaw

\* the attacks tried on the stored record: every one on a record of the
\* buffer functions; on a file's record a byte is flipped only at either end
\* of the ciphertext and of the tag
AttacksOn(call) ==
    IF call.op \in {"encryptFile", "encryptFileStream"}
    THEN { a \in Attacks(Len(call.data)) :
             /\ a.kind = "flipCt" => a.pos \in {1, Len(call.data)} /\ a.delta = 1
             /\ a.kind = "flipTag" =>
                  a.pos \in {1, GCM_AUTH_TAG_LENGTH_BYTES} /\ a.delta = 255 }
    ELSE Attacks(Len(call.data))

DecryptBuffer ==
    /\ last.op = "none"
    /\ cur.op \in {"encryptBuffer", "encryptFile"}
    /\ \E a \in AttacksOn(cur), password \in DecryptPasswords :
        LET subject == PayloadOf(TamperRaw(StoredRaw(cur, disk), a))
        IN  last' = [NoCall EXCEPT !.op = "decryptBuffer", !.password = password,
                                   !.attack = a, !.subject = subject,
                                   !.res = decryptBuffer(subject, password)]
    /\ UNCHANGED <<rng, cur, disk>>

DecryptBufferRaw ==
    /\ last.op = "none"
    /\ cur.op \in {"encryptBufferRaw", "encryptFile"}
    /\ \E a \in AttacksOn(cur), password \in DecryptPasswords :
        LET subject == TamperRaw(StoredRaw(cur, disk), a)
        IN  last' = [NoCall EXCEPT !.op = "decryptBufferRaw", !.password = password,
                                   !.attack = a, !.subject = subject,
                                   !.res = decryptBufferRaw(subject, password)]
    /\ UNCHANGED <<rng, cur, disk>>

NextBuffers ==
    \/ EncryptBuffer
    \/ EncryptBufferRaw
    \/ DecryptBuffer
    \/ DecryptBufferRaw
    \/ Resume

Spec == InitBuffers /\ [][NextBuffers]_vars

(* --------------------------- the file callers ------------------------- *)

\* one document on disk, nothing else
InitFile ==
    /\ rng = 0
    /\ cur = NoCall
    /\ last = NoCall
    /\ disk = [p \in Paths |->
                 IF p = InPath THEN FileEntry(Message(MaxLen)) ELSE NoEntry]

\* the metadata attacks: those on a record without ciphertext
FileAttacks ==
    AttacksOn([NoCall EXCEPT !.op = "encryptFile"])

\* the passwords of the file callers: encryptFile is given a good one, none
\* or one that is too short, decryptFile the good one, another one or none
FileEncryptPasswords == {PwA, PwShort, Pw7, PwEmpty}

FileDecryptPasswords == {PwA, PwB, PwEmpty}

\* the metadata after the attack
TamperMetadata(metadata, a) ==
    LET raw == TamperRaw([cipherBytes |-> <<>>,
                          salt |-> fromBase64(metadata.salt),
                          iv |-> fromBase64(metadata.iv),
                          authTag |-> fromBase64(metadata.authTag),
                          version |-> metadata.version], a)
    IN  [metadata EXCEPT !.salt = toBase64(raw.salt), !.iv = toBase64(raw.iv),
                         !.authTag = toBase64(raw.authTag),
                         !.version = raw.version]

EncryptFile ==
    /\ last.op = "none"
    /\ \E inputPath \in {InPath, OutDir}, password \in FileEncryptPasswords,
          inj \in {<<Omitted, Omitted>>}, env \in FsOutcomes :
        LET out == encryptFile(disk, inputPath, EncPath, password,
                               inj[1], inj[2], rng, env)
        IN  /\ rng + DrawsOf(inj[1], inj[2]) <= MaxDraws
            /\ last' = [NoCall EXCEPT !.op = "encryptFile",
                                      !.data = readFileSync(disk, inputPath),
                                      !.password = password, !.salt = inj[1],
                                      !.iv = inj[2], !.inputPath = inputPath,
                                      !.outputPath = EncPath, !.res = out.res]
            /\ rng' = rng + out.res.draws
            /\ disk' = out.disk
    /\ UNCHANGED cur

DecryptFile ==
    /\ last.op = "none"
    /\ cur.op = "encryptFile"
    /\ \E a \in FileAttacks, password \in FileDecryptPasswords,
          inputPath \in {EncPath, OutDir}, env \in FsOutcomes :
        LET subject == TamperMetadata(cur.res.metadata, a)
            out == decryptFile(disk, inputPath, OutPath, subject, password, env)
        IN  /\ last' = [NoCall EXCEPT !.op = "decryptFile", !.password = password,
                                      !.attack = a, !.subject = subject,
                                      !.inputPath = inputPath,
                                      !.outputPath = OutPath,
                                      !.fsOk = (env.mkdir /\ env.write = "ok"),
                                      !.res = out.res]
            /\ disk' = out.disk
    /\ UNCHANGED <<rng, cur>>

NextFile ==
    \/ EncryptFile
    \/ DecryptFile
    \/ DecryptBuffer
    \/ DecryptBufferRaw
    \/ Resume

SpecFile == InitFile /\ [][NextFile]_vars

(* ------------------------ the key derivation callers ------------------ *)

KeyPasswords == {PwA, PwB, PwNul, PwEmpty}

KeySalts == {Omitted, Given(SaltA), Given(SaltB), Given(<<>>)}

\* deriveKey(password, salt) of either module; in the decryption module the
\* salt is required, and one that is no Buffer or has no bytes is refused.
\* Of {key, salt, iterations} the key is kept in keyDerived and keyFinal, the
\* salt in raw.salt and the iteration count in size.
DeriveKey ==
    /\ last.op = "none"
    /\ \E module \in {"encryption", "decryption"}, password \in KeyPasswords,
          salt \in KeySalts :
        LET dk == IF module = "encryption" THEN deriveKeyEnc(password, salt, rng)
                  ELSE deriveKeyDec(password, salt.bytes)
        IN  /\ rng + dk.draws <= MaxDraws
            /\ last' = [NoCall EXCEPT
                          !.op = "deriveKey", !.module = module,
                          !.password = password, !.salt = salt,
                          !.res = [NoResult EXCEPT
                                     !.ok = dk.ok,
                                     !.err = IF dk.ok THEN NoError
                                             ELSE PlainError(dk.msg),
                                     !.raw = [NoRaw EXCEPT !.salt = dk.salt],
                                     !.size = dk.iterations,
                                     !.derives = 1,
                                     !.keyDerived = dk.key,
                                     !.keyFinal = dk.key,
                                     !.draws = dk.draws]]
            /\ rng' = rng + dk.draws
    /\ UNCHANGED <<cur, disk>>

NextKey ==
    \/ DeriveKey
    \/ Resume

SpecKey == InitBuffers /\ [][NextKey]_vars

\* the KeyDerivationParams callers pass: iteration counts and key lengths
\* below, at and above the least value allowed, hashes known and unknown
KeyParams ==
    [password : {PwA, PwEmpty}, salt : {SaltA, <<>>},
     iterations : {-1, 0, 1, PBKDF2_ITERATIONS},
     keyLength : {-1, 0, 1, AES_KEY_LENGTH_BYTES},
     digest : KnownDigests \cup {"sha0"}]

\* deriveKeyAdvanced(params) of either module; the Buffer it resolves with is
\* kept in keyDerived and keyFinal
DeriveKeyAdvanced ==
    /\ last.op = "none"
    /\ \E module \in {"encryption", "decryption"}, params \in KeyParams :
        LET dk == IF module = "encryption" THEN deriveKeyAdvancedEnc(params)
                  ELSE deriveKeyAdvancedDec(params)
        IN  last' = [NoCall EXCEPT
                       !.op = "deriveKeyAdvanced", !.module = module,
                       !.params = params,
                       !.res = [NoResult EXCEPT
                                  !.ok = dk.ok,
                                  !.err = IF dk.ok THEN NoError
                                          ELSE PlainError(dk.msg),
                                  !.derives = IF dk.ok THEN 1 ELSE 0,
                                  !.keyDerived = dk.key,
                                  !.keyFinal = dk.key]]
    /\ UNCHANGED <<rng, cur, disk>>

NextKeyAdvanced ==
    \/ DeriveKeyAdvanced
    \/ Resume

SpecKeyAdvanced == InitBuffers /\ [][NextKeyAdvanced]_vars

(* -------------------------- the stream callers ------------------------ *)

\* a document of any of the lengths on disk, nothing else
InitStream ==
    /\ rng = 0
    /\ cur = NoCall
    /\ last = NoCall
    /\ \E data \in Plaintexts :
         disk = [p \in Paths |-> IF p = InPath THEN FileEntry(data) ELSE NoEntry]

\* the salt and iv given to the stream functions: a salt of 16 bytes and an
\* iv of 12
StreamInjections ==
    { <<Given(SaltA), Given(IvA)>> }

\* encryptFileStream(inputPath, outputPath, {password, salt, iv}, onProgress)
\* up to the return of its Promise
EncryptFileStream ==
    /\ last.op = "none"
    /\ \E inputPath \in {InPath, OutDir}, password \in FileEncryptPasswords,
          inj \in StreamInjections :
        LET out == encryptFileStream(disk, inputPath, EncPath, password,
                                     inj[1], inj[2], rng,
                                     [mkdir |-> TRUE, write |-> "ok", unlink |-> TRUE])
        IN  /\ rng + DrawsOf(inj[1], inj[2]) <= MaxDraws
            /\ last' = [NoCall EXCEPT !.op = "encryptFileStream",
                                      !.data = readFileSync(disk, inputPath),
                                      !.password = password, !.salt = inj[1],
                                      !.iv = inj[2], !.inputPath = inputPath,
                                      !.outputPath = EncPath, !.res = out.res,
                                      !.stream = out.stream]
            /\ rng' = rng + out.res.draws
            /\ disk' = out.disk
    /\ UNCHANGED cur

\* the metadata attacks tried on the stream: none, a flipped tag byte, a
\* tag of 8 bytes, a salt or an iv of no bytes
StreamAttacks ==
    { a \in FileAttacks :
        /\ a.kind \in {"none", "flipTag", "shortTag", "emptySalt", "emptyIv"}
        /\ a.kind = "flipTag" => a.pos = 1 }

\* decryptFileStream(inputPath, outputPath, metadata, {password}, onProgress)
\* up to the return of its Promise
DecryptFileStream ==
    /\ last.op = "none"
    /\ cur.op \in {"encryptFile", "encryptFileStream"}
    /\ \E a \in StreamAttacks, password \in FileDecryptPasswords,
          inputPath \in {EncPath, OutDir}, mkdir \in BOOLEAN :
        LET subject == TamperMetadata(cur.res.metadata, a)
            out == decryptFileStream(disk, inputPath, OutPath, subject, password,
                                     [mkdir |-> mkdir, write |-> "ok",
                                      unlink |-> TRUE])
        IN  /\ last' = [NoCall EXCEPT !.op = "decryptFileStream",
                                      !.password = password, !.attack = a,
                                      !.subject = subject, !.inputPath = inputPath,
                                      !.outputPath = OutPath, !.res = out.res,
                                      !.stream = out.stream]
            /\ disk' = out.disk
    /\ UNCHANGED <<rng, cur>>

\* the fs.open of writeStream completes: the file is created or truncated,
\* also when destroy() has been called meanwhile; or it fails and
\* writeStream emits 'error'
StreamWriteOpen ==
    /\ last.stream.active
    /\ last.stream.wstate = "opening"
    /\ \E opened \in BOOLEAN :
        /\ last.stream.destroyed => opened
        /\ IF opened
           THEN /\ disk' = [disk EXCEPT ![last.outputPath] = FileEntry(<<>>)]
                /\ last' = [last EXCEPT !.stream.wstate =
                                           IF last.stream.destroyed THEN "closed"
                                           ELSE "open"]
           ELSE /\ disk' = disk
                /\ last' = StreamFailed([last EXCEPT !.stream.wstate = "failed"],
                                        "Failed to write output file")
    /\ UNCHANGED <<rng, cur>>

\* readStream emits 'data': bytesProcessed += chunk.length, onProgress is
\* called, and the pipe hands the chunk to the cipher
StreamReadData ==
    /\ last.stream.active
    /\ last.stream.rstate = "flowing"
    /\ last.stream.cstate = "active"
    /\ last.stream.nread < last.stream.total
    /\ LET st == last.stream
           n == IF st.total - st.nread < ChunkLen THEN st.total - st.nread
                ELSE ChunkLen
       IN  last' = [last EXCEPT
                      !.stream.nread = st.nread + n,
                      !.stream.reports =
                         Append(st.reports, ProgressReport(st, n, Settled(last)))]
    /\ UNCHANGED <<rng, cur, disk>>

\* readStream emits 'end' and the pipe ends the cipher, whose final() runs.
\* When the decipher cannot authenticate it emits 'error': the handler
\* zeroes the key, destroys writeStream, unlinks outputPath if it exists
\* (an error of unlinkSync is ignored) and rejects with WRONG_PASSWORD.
StreamReadEnd ==
    /\ last.stream.active
    /\ last.stream.rstate = "flowing"
    /\ last.stream.cstate = "active"
    /\ last.stream.nread = last.stream.total
    /\ \E unlink \in BOOLEAN :
        LET st == last.stream
            authentic == \/ ~st.decrypt
                         \/ GcmTag(st.ckey, st.iv, CipherTextSeen(st)) = st.tag
        IN  IF authentic
            THEN /\ unlink
                 /\ disk' = disk
                 /\ last' = [last EXCEPT !.stream.rstate = "ended",
                                         !.stream.cstate = "ended"]
            ELSE /\ ~isFile(disk, last.outputPath) => unlink
                 /\ disk' = Cleanup(disk, last.outputPath,
                                    [mkdir |-> TRUE, write |-> "ok",
                                     unlink |-> unlink])
                 /\ last' = Reject([last EXCEPT
                                      !.stream.rstate = "ended",
                                      !.stream.cstate = "error",
                                      !.stream.key = secureWipe(st.key),
                                      !.stream.destroyed = TRUE,
                                      !.stream.wstate = IF st.wstate = "open"
                                                        THEN "closed"
                                                        ELSE st.wstate,
                                      !.res.cleanup =
                                         IF ~existsSync(disk, last.outputPath)
                                         THEN "absent"
                                         ELSE IF unlink THEN "removed"
                                         ELSE "failed"],
                                    DecryptionError("WRONG_PASSWORD"))
    /\ UNCHANGED <<rng, cur>>

\* readStream emits 'error'
StreamReadError ==
    /\ last.stream.active
    /\ last.stream.rstate = "flowing"
    /\ last' = StreamFailed([last EXCEPT !.stream.rstate = "error"],
                            "Failed to read input file")
    /\ UNCHANGED <<rng, cur, disk>>

\* writeStream writes a chunk the cipher has put out, or fails to and emits
\* 'error'
StreamWriteData ==
    /\ last.stream.active
    /\ last.stream.wstate = "open"
    /\ last.stream.nwritten < last.stream.nread
    /\ \E written \in BOOLEAN :
        LET st == last.stream
            n == IF st.nread - st.nwritten < ChunkLen THEN st.nread - st.nwritten
                 ELSE ChunkLen
        IN  IF written
            THEN /\ disk' = [disk EXCEPT ![last.outputPath] =
                                FileEntry(@.data \o
                                          CipherUpdate(st, st.nwritten,
                                                       st.nwritten + n))]
                 /\ last' = [last EXCEPT !.stream.nwritten = st.nwritten + n,
                                         !.res.wrote = TRUE]
            ELSE /\ disk' = disk
                 /\ last' = StreamFailed([last EXCEPT !.stream.wstate = "failed"],
                                         "Failed to write output file")
    /\ UNCHANGED <<rng, cur>>

\* writeStream emits 'finish': the key is zeroed and the promise resolved,
\* by decryptFileStream with the size of outputPath and verified: true, by
\* encryptFileStream with the metadata
StreamWriteFinish ==
    /\ last.stream.active
    /\ last.stream.wstate = "open"
    /\ last.stream.cstate = "ended"
    /\ last.stream.nwritten = last.stream.total
    /\ LET st == last.stream
           wiped == IF st.decrypt THEN secureWipe(st.key) ELSE Fill0(st.key)
           done == [last EXCEPT !.stream.wstate = "finished",
                                !.stream.key = wiped]
       IN  last' =
             IF Settled(last) THEN done
             ELSE IF st.decrypt THEN
                 [done EXCEPT
                    !.res.ok = TRUE, !.res.verified = TRUE,
                    !.res.size = Len(readFileSync(disk, last.outputPath)),
                    !.res.metadata =
                       [NoMetadata EXCEPT
                          !.originalFileName = last.subject.originalFileName,
                          !.mimeType = last.subject.mimeType],
                    !.res.keyFinal = wiped]
             ELSE
                 [done EXCEPT
                    !.res.ok = TRUE,
                    !.res.metadata =
                       [salt |-> toBase64(st.salt),
                        iv |-> toBase64(st.iv),
                        authTag |-> toBase64(GcmTag(st.ckey, st.iv,
                                                    CipherTextSeen(st))),
                        originalFileName |-> basename(last.inputPath),
                        mimeType |-> guessMimeType(last.inputPath),
                        originalSize |-> st.total,
                        version |-> ENCRYPTION_FORMAT_VERSION],
                    !.res.keyFinal = wiped]
    /\ UNCHANGED <<rng, cur, disk>>

NextStream ==
    \/ EncryptFileStream
    \/ DecryptFileStream
    \/ StreamWriteOpen
    \/ StreamReadData
    \/ StreamReadEnd
    \/ StreamReadError
    \/ StreamWriteData
    \/ StreamWriteFinish
    \/ Resume

SpecStream == InitStream /\ [][NextStream]_vars

\* the events of the streams of the call in flight
StreamEvents ==
    \/ StreamWriteOpen
    \/ StreamReadData
    \/ StreamReadEnd
    \/ StreamReadError
    \/ StreamWriteData
    \/ StreamWriteFinish

\* The event loop delivers an event that is pending: the streams of a call
\* do not stand still while one of them has something to do.  This is
\* WF_vars(StreamEvents) with ENABLED <<StreamEvents>>_vars written out: an
\* event is enabled exactly when StreamBusy holds of the streams.
SpecStreamFair ==
    /\ SpecStream
    /\ \/ []<>(~StreamBusy(last.stream))
       \/ []<><<StreamEvents>>_vars

(* -------------------------- the encrypt callers ----------------------- *)

\* the texts given to encryptText: "", "a" and "h\u00e9"
Texts ==
    {<<>>, <<97>>, <<104, 233>>}

\* encryptText(text, password): encryptBuffer(Buffer.from(text, "utf-8"),
\* {password})
encryptText(text, password, r) ==
    encryptBuffer(Utf8Encode(text), password, Omitted, Omitted, r)

EncryptText ==
    /\ last.op = "none"
    /\ \E text \in Texts, password \in Passwords :
        LET res == encryptText(text, password, rng)
        IN  /\ rng + DrawsOf(Omitted, Omitted) <= MaxDraws
            /\ last' = [NoCall EXCEPT !.op = "encryptText",
                                      !.data = Utf8Encode(text),
                                      !.password = password, !.res = res]
            /\ rng' = rng + res.draws
    /\ UNCHANGED <<cur, disk>>

\* one call of any of the five encrypt entry points, and the events of its
\* streams
NextEncrypt ==
    \/ EncryptBuffer
    \/ EncryptBufferRaw
    \/ EncryptText
    \/ EncryptFile
    \/ EncryptFileStream
    \/ StreamWriteOpen
    \/ StreamReadData
    \/ StreamReadEnd
    \/ StreamReadError
    \/ StreamWriteData
    \/ StreamWriteFinish

SpecEncrypt == InitStream /\ [][NextEncrypt]_vars

(* ------------------------- the validation callers --------------------- *)

\* validatePayload(payload) on a payload with any combination of defects; the
\* DecryptionError it throws is kept in err
ValidatePayload ==
    /\ last.op = "none"
    /\ \E d \in Defects :
        LET code == validatePayload(DefectivePayload(d))
        IN  last' = [NoCall EXCEPT
                       !.op = "validatePayload", !.defects = d,
                       !.subject = DefectivePayload(d),
                       !.res = [NoResult EXCEPT
                                  !.ok = (code = ""),
                                  !.err = IF code = "" THEN NoError
                                          ELSE DecryptionError(code)]]
    /\ UNCHANGED <<rng, cur, disk>>

NextValidate ==
    \/ ValidatePayload
    \/ Resume

SpecValidate == InitBuffers /\ [][NextValidate]_vars

(* ----------------------- two calls in flight -------------------------- *)

\* Two encryptFile / decryptFile calls made by one caller without awaiting
\* the first.  A call runs up to its await of deriveKey (the password and
\* input checks, the read of inputPath), the derivation runs on the thread
\* pool, and the rest of the call (cipher, mkdirSync, writeFileSync, catch,
\* finally) runs in one piece when the key is there.  In this specification
\* cur holds the first call and last the second; a call whose res is still
\* NoResult is waiting for its key, and its data is what it read.

\* a file system on which every operation succeeds
FsReady == [mkdir |-> TRUE, write |-> "ok", unlink |-> TRUE]

\* the document encrypted to EncPath with encryptFile
Encrypted ==
    encryptFile([p \in Paths |->
                   IF p = InPath THEN FileEntry(Message(MaxLen)) ELSE NoEntry],
                InPath, EncPath, PwA, Given(SaltA), Given(IvA), 0, FsReady)

InitPair ==
    /\ rng = 0
    /\ cur = NoCall
    /\ last = NoCall
    /\ disk = Encrypted.disk

\* A faulty pairing, which C24 must tell from the real one: the arguments of
\* a call are kept in one place, where the later call overwrites them.
InvocationShared(slot) ==
    IF last.op # "none" THEN last ELSE cur

\* the arguments a call was made with, which are its own
Invocation(slot) ==
    IF slot = 1 THEN cur ELSE last

\* the call on the files d: encryptFile works on the bytes it read before
\* its await (call.data) whatever became of inputPath since, and leaves
\* inputPath alone; decryptFile read inputPath, which no call writes
PairRun(call, d, env) ==
    IF call.op = "encryptFile" THEN
        LET seen == IF call.data = <<>> THEN d
                    ELSE [d EXCEPT ![call.inputPath] = FileEntry(call.data)]
            out == encryptFile(seen, call.inputPath, call.outputPath,
                               call.password, Given(SaltA), Given(IvA), 0, env)
        IN  [res |-> out.res,
             disk |-> [out.disk EXCEPT ![call.inputPath] = d[call.inputPath]]]
    ELSE decryptFile(d, call.inputPath, call.outputPath, call.subject,
                     call.password, env)

\* encryptFile or decryptFile is called: it fails at once when the password
\* or the input is refused, else it waits for deriveKey having read inputPath
PairStart ==
    \E slot \in {1, 2}, op \in {"encryptFile", "decryptFile"},
       password \in FileDecryptPasswords, outputPath \in {OutPath, InPath} :
        LET made == [NoCall EXCEPT
                       !.op = op, !.password = password,
                       !.subject = IF op = "decryptFile"
                                   THEN Encrypted.res.metadata ELSE NoCall.subject,
                       !.inputPath = IF op = "decryptFile" THEN EncPath ELSE InPath,
                       !.outputPath = outputPath]
            early == PairRun(made, disk, FsReady)
            call == [made EXCEPT
                       !.data = IF op = "encryptFile" /\ early.res.derives # 0
                                THEN readFileSync(disk, InPath) ELSE <<>>,
                       !.res = IF early.res.derives = 0 THEN early.res
                               ELSE NoResult]
        IN  /\ op = "encryptFile" => outputPath = OutPath
            /\ (IF slot = 1 THEN cur ELSE last).op = "none"
            /\ slot = 2 => cur.op # "none"
            /\ cur' = IF slot = 1 THEN call ELSE cur
            /\ last' = IF slot = 2 THEN call ELSE last
            /\ UNCHANGED <<rng, disk>>

\* the key of a waiting call is there, once both calls have been made: the
\* call ciphers, writes outputPath or cleans up, wipes the key and settles
PairFinish ==
    \E slot \in {1, 2}, env \in {e \in FsOutcomes : e.mkdir /\ e.write = "ok"} :
        LET out == PairRun(Invocation(slot), disk, env)
        IN  /\ cur.op # "none" /\ last.op # "none"
            /\ ~Settled(IF slot = 1 THEN cur ELSE last)
            /\ cur' = IF slot = 1 THEN [cur EXCEPT !.res = out.res] ELSE cur
            /\ last' = IF slot = 2 THEN [last EXCEPT !.res = out.res] ELSE last
            /\ disk' = out.disk
            /\ UNCHANGED rng

NextPair ==
    \/ PairStart
    \/ PairFinish

SpecPair == InitPair /\ [][NextPair]_vars

(* ------------------------------ claims -------------------------------- *)

\* the stored record came from encryptBuffer(P, {password: W}): no salt or
\* iv was injected
Uninjected(call) ==
    ~call.salt.given /\ ~call.iv.given

\* C1: decrypting what encryptBuffer(P, {password: W}) returned, with the
\* same password W, succeeds and returns P with verified = true, for every
\* P (the empty one included) and every W of at least 8 characters.
C1_RoundTrip ==
    (/\ last.op = "decryptBuffer"
     /\ last.attack = NoAttack
     /\ Uninjected(cur)
     /\ last.password = cur.password)
    => (/\ last.res.ok
        /\ last.res.data = cur.data
        /\ last.res.verified)

C1_Witness ==
    /\ last.op = "decryptBuffer"
    /\ last.attack = NoAttack
    /\ Uninjected(cur)
    /\ Len(cur.password) >= MIN_PASSWORD_LENGTH
    /\ last.password = cur.password
    /\ cur.data = Message(MaxLen)
    /\ last.res.data = cur.data

\* C2 (as claimed): every payload encryptBuffer produced with password W is
\* refused with WRONG_PASSWORD by decryptBuffer under any other non-empty
\* password, and no result is returned.
C2_WrongPassword ==
    (/\ last.op = "decryptBuffer"
     /\ last.attack = NoAttack
     /\ last.password # cur.password
     /\ last.password # PwEmpty)
    => (/\ ~last.res.ok
        /\ last.res.err = DecryptionError("WRONG_PASSWORD")
        /\ last.res.data = <<>>)

\* C3: a valid payload of encryptBuffer with one byte of its decoded
\* cipherText or authTag changed (lengths kept) is refused by decryptBuffer
\* under the correct password with WRONG_PASSWORD or INTEGRITY_CHECK_FAILED,
\* and no plaintext is returned.
C3_Tampered ==
    (/\ last.op = "decryptBuffer"
     /\ last.attack.kind \in {"flipCt", "flipTag"}
     /\ validatePayload(cur.res.payload) = ""
     /\ last.password = cur.password)
    => (/\ ~last.res.ok
        /\ last.res.err.cls = "DecryptionError"
        /\ last.res.err.code \in {"WRONG_PASSWORD", "INTEGRITY_CHECK_FAILED"}
        /\ last.res.data = <<>>
        /\ ~last.res.verified)

C3_Witness ==
    /\ last.op = "decryptBuffer"
    /\ last.attack.kind = "flipCt"
    /\ last.attack.pos = MaxLen
    /\ validatePayload(cur.res.payload) = ""
    /\ last.password = cur.password
    /\ RawOf(last.subject).cipherBytes # RawOf(cur.res.payload).cipherBytes
    /\ last.res.err.code = "WRONG_PASSWORD"

\* two encryptBuffer calls of the same plaintext and password, neither with
\* an injected salt or iv, both returned
TwoEncryptions ==
    /\ last.op = "encryptBuffer"
    /\ cur.op = "encryptBuffer"
    /\ last.res.ok
    /\ Uninjected(last)
    /\ Uninjected(cur)
    /\ last.data = cur.data
    /\ last.password = cur.password

C6_VersionCode ==
    (last.op = "decryptBuffer" /\ last.subject.version # ENCRYPTION_FORMAT_VERSION)
    => (/\ ~last.res.ok
        /\ last.res.err = DecryptionError("UNSUPPORTED_VERSION")
        /\ last.res.derives = 0)

\* C6 (amended): decryptBuffer given a payload whose version is not 1 fails
\* without any deriveKey invocation; the code is UNSUPPORTED_VERSION when
\* the password is not empty and the payload has no other defect, and
\* MISSING_FIELDS or INVALID_FORMAT, which are checked first, otherwise.
C6_VersionBeforeDerive ==
    (last.op = "decryptBuffer" /\ last.subject.version # ENCRYPTION_FORMAT_VERSION)
    => (/\ ~last.res.ok
        /\ last.res.derives = 0
        /\ last.res.keyDerived = <<>>
        /\ last.res.err.cls = "DecryptionError"
        /\ last.res.err.code \in {"MISSING_FIELDS", "INVALID_FORMAT", "UNSUPPORTED_VERSION"}
        /\ ((/\ last.password # PwEmpty
             /\ validatePayload([last.subject EXCEPT
                                   !.version = ENCRYPTION_FORMAT_VERSION]) = "")
              => last.res.err.code = "UNSUPPORTED_VERSION"))

C6_Witness ==
    /\ last.op = "decryptBuffer"
    /\ last.attack.kind = "version"
    /\ last.subject.version # ENCRYPTION_FORMAT_VERSION
    /\ last.password = cur.password
    /\ last.res.err.code = "UNSUPPORTED_VERSION"
    /\ last.res.derives = 0

\* the salt of a deriveKey call: the one it was given, else the one it drew
\* and returned
SaltOf(call) ==
    IF call.salt.given THEN call.salt.bytes ELSE call.res.raw.salt

SubjectRaw(call) ==
    IF call.op = "decryptBufferRaw" THEN call.subject
    ELSE [salt |-> fromBase64(call.subject.salt),
          iv |-> fromBase64(call.subject.iv),
          authTag |-> fromBase64(call.subject.authTag),
          version |-> call.subject.version]

\* its version is not the supported one, or a field has the wrong length
Malformed(raw) ==
    \/ raw.version # ENCRYPTION_FORMAT_VERSION
    \/ Len(raw.salt) # SALT_LENGTH_BYTES
    \/ Len(raw.iv) # IV_LENGTH_BYTES
    \/ Len(raw.authTag) # GCM_AUTH_TAG_LENGTH_BYTES

\* C7 (as claimed): decryptBuffer, decryptBufferRaw and decryptFile, given a
\* password and a record with an unsupported version or a salt, iv or
\* authTag of the wrong length, reject it with UNSUPPORTED_VERSION or
\* INVALID_FORMAT before deriveKey is invoked.
C7_ValidatedBeforeDerive ==
    (/\ last.op \in {"decryptBuffer", "decryptBufferRaw", "decryptFile"}
     /\ last.password # PwEmpty
     /\ last.op = "decryptFile" => last.inputPath = EncPath
     /\ Malformed(SubjectRaw(last)))
    => (/\ ~last.res.ok
        /\ last.res.err.cls = "DecryptionError"
        /\ last.res.err.code \in {"UNSUPPORTED_VERSION", "INVALID_FORMAT"}
        /\ last.res.derives = 0)

\* C8: when decryptBuffer, decryptBufferRaw or decryptFile settles after a
\* key was derived, every byte of the key buffer is zero, whether the call
\* succeeded or failed.
C8_DecryptKeyWiped ==
    (/\ last.op \in {"decryptBuffer", "decryptBufferRaw", "decryptFile"}
     /\ last.res.keyDerived # <<>>)
    => (/\ Len(last.res.keyFinal) = AES_KEY_LENGTH_BYTES
        /\ AllZero(last.res.keyFinal))

C8_Witness ==
    /\ last.op = "decryptFile"
    /\ ~last.res.ok
    /\ last.res.err = DecryptionError("WRONG_PASSWORD")
    /\ Len(last.res.keyDerived) = AES_KEY_LENGTH_BYTES
    /\ ~AllZero(last.res.keyDerived)
    /\ AllZero(last.res.keyFinal)

\* C9 (as claimed): when encryptBuffer or encryptBufferRaw settles after a
\* key was derived, every byte of the key buffer is zero, also when creating
\* the cipher or encrypting threw.
C9_EncryptKeyWiped ==
    (/\ last.op \in {"encryptBuffer", "encryptBufferRaw"}
     /\ last.res.keyDerived # <<>>)
    => AllZero(last.res.keyFinal)

\* decryptFile failed for one of the reasons the claim names: a wrong
\* password, a byte of the metadata authTag flipped, a failed write
NamedFailure ==
    /\ last.op = "decryptFile"
    /\ ~last.res.ok
    /\ last.inputPath = EncPath
    /\ \/ last.attack = NoAttack /\ last.password \notin {cur.password, PwEmpty}
       \/ last.attack.kind = "flipTag" /\ last.password = cur.password
       \/ last.res.wrote

\* the tag of the metadata is the tag of the encrypted file under the key
\* the call derived
TagVerifies ==
    GcmTag(last.res.keyDerived, fromBase64(last.subject.iv),
           readFileSync(disk, last.inputPath)) = fromBase64(last.subject.authTag)

ExpectedCode(d) ==
    IF d.absent # {} THEN "MISSING_FIELDS"
    ELSE IF d.malformed # {} \/ d.short # {} THEN "INVALID_FORMAT"
    ELSE IF d.version # ENCRYPTION_FORMAT_VERSION THEN "UNSUPPORTED_VERSION"
    ELSE ""

C13_FixedOrder ==
    last.op = "validatePayload" =>
        /\ last.res.ok = (ExpectedCode(last.defects) = "")
        /\ last.res.err = IF ExpectedCode(last.defects) = "" THEN NoError
                          ELSE DecryptionError(ExpectedCode(last.defects))

\* a payload with a missing field, a malformed one, a short one and a wrong
\* version was refused for the missing field
C13_Witness ==
    /\ last.op = "validatePayload"
    /\ last.defects.absent = {"authTag"}
    /\ last.defects.malformed # {}
    /\ last.defects.short # {}
    /\ last.defects.version # ENCRYPTION_FORMAT_VERSION
    /\ last.res.err = DecryptionError("MISSING_FIELDS")

\* C20: deriveKey(password, salt?) of the encryption module fails when the
\* password is empty; otherwise it returns a key of 32 bytes, iterations =
\* 150000, and as salt the caller's salt when one was supplied and a fresh
\* salt of 16 bytes when it was omitted.
C20_DeriveKey ==
    last.op = "deriveKey" /\ last.module = "encryption" =>
        IF Len(last.password) = 0
        THEN ~last.res.ok /\ last.res.err.cls # "none" /\ last.res.keyDerived = <<>>
        ELSE /\ last.res.ok
             /\ Len(last.res.keyDerived) = 32
             /\ last.res.size = 150000
             /\ last.salt.given => last.res.raw.salt = last.salt.bytes
             /\ ~last.salt.given =>
                  /\ Len(last.res.raw.salt) = 16
                  /\ last.res.draws = 1
                  /\ last.res.raw.salt = randomBytes(16, rng - 1)
                  /\ cur.op = "deriveKey" /\ cur.res.ok =>
                       cur.res.raw.salt # last.res.raw.salt

\* after a call that was given SaltA, a call without a salt returned a key
\* under a salt of its own
C20_Witness ==
    /\ last.op = "deriveKey"
    /\ last.module = "encryption"
    /\ cur.op = "deriveKey"
    /\ cur.module = "encryption"
    /\ cur.salt = Given(SaltA)
    /\ cur.res.raw.salt = SaltA
    /\ ~last.salt.given
    /\ last.res.ok
    /\ Len(last.res.raw.salt) = 16
    /\ last.res.raw.salt # SaltA
    /\ Len(last.res.keyDerived) = 32

\* the bytes encryptFile wrote for the stored call: the file's content
\* encrypted under the password and the salt and iv of the metadata
EncryptedBytes(call) ==
    GcmEncrypt(PBKDF2(call.password, fromBase64(call.res.metadata.salt),
                      PBKDF2_ITERATIONS, AES_KEY_LENGTH_BYTES),
               fromBase64(call.res.metadata.iv), call.data).cipherBytes

\* decryptFile was given the file and the metadata of the stored
\* encryptFile(F, out, {password: W}) and the password W, and the file
\* system did what it was asked
FileRoundTrip ==
    /\ last.op = "decryptFile"
    /\ cur.op = "encryptFile"
    /\ cur.res.ok
    /\ Uninjected(cur)
    /\ Len(cur.password) >= 8
    /\ last.password = cur.password
    /\ last.attack = NoAttack
    /\ last.inputPath = cur.outputPath
    /\ readFileSync(disk, cur.outputPath) = EncryptedBytes(cur)
    /\ last.fsOk

\* C18: decryptFile on the output and metadata of encryptFile(F) with a
\* password W of at least 8 characters writes a file byte-identical to F and
\* returns verified = true, size = metadata.originalSize, and
\* originalFileName and mimeType taken from the metadata.
C18_FileRoundTrip ==
    FileRoundTrip =>
        /\ last.res.ok
        /\ last.res.verified
        /\ isFile(disk, last.outputPath)
        /\ readFileSync(disk, last.outputPath) = cur.data
        /\ last.res.size = cur.res.metadata.originalSize
        /\ last.res.size = Len(cur.data)
        /\ last.res.metadata.originalFileName = cur.res.metadata.originalFileName
        /\ last.res.metadata.mimeType = cur.res.metadata.mimeType

\* the document came back, with its name and type
C18_Witness ==
    /\ FileRoundTrip
    /\ last.res.ok
    /\ Len(cur.data) > 0
    /\ readFileSync(disk, OutPath) = readFileSync(disk, InPath)
    /\ last.res.metadata.originalFileName = "doc.pdf"
    /\ last.res.metadata.mimeType = "application/pdf"
    /\ last.res.size = Len(readFileSync(disk, InPath))

\* the decipher of the decryptFileStream call has failed to verify the tag
\* and its 'error' handler has run; neither stream has emitted 'error'
TagFailed ==
    /\ last.op = "decryptFileStream"
    /\ last.stream.active
    /\ last.stream.cstate = "error"
    /\ last.stream.wstate # "failed"

\* C11: when the tag does not verify, decryptFileStream rejects with
\* WRONG_PASSWORD, never resolves with verified = true, and whatever the
\* order of the stream events (the open of the file, the writes of the
\* chunks, the decipher's error, destroy) no file exists at outputPath once
\* the rejection has been delivered.
C11_NoOutputAfterTagFailure ==
    TagFailed =>
        /\ last.res.err = DecryptionError("WRONG_PASSWORD")
        /\ ~last.res.ok
        /\ ~last.res.verified
        /\ ~existsSync(disk, last.outputPath)

\* C12: while decryptFile or decryptFileStream runs, outputPath never holds
\* plaintext bytes of the call whose tag has not been verified yet.
C12_NoUnverifiedPlaintext ==
    /\ (last.op = "decryptFile" /\ last.res.wrote) => TagVerifies
    /\ (/\ last.op = "decryptFileStream"
        /\ last.stream.nwritten > 0
        /\ Len(readFileSync(disk, last.outputPath)) > 0)
         => last.stream.cstate = "ended"

\* a stream call whose Promise executor has run
StreamCall ==
    /\ last.op \in {"encryptFileStream", "decryptFileStream"}
    /\ last.stream.active

\* the chunks it takes to read n bytes
Chunks(n) ==
    (n + ChunkLen - 1) \div ChunkLen

\* what C19 says of every report: one per chunk read, totalBytes the size of
\* the input file, bytesProcessed the running sum of the chunk lengths,
\* strictly increasing and never above totalBytes, the last one before a
\* resolution equal to totalBytes
ReportsInOrder ==
    LET st == last.stream
        r == st.reports
        size == Len(readFileSync(disk, last.inputPath))
    IN  /\ Len(r) = Chunks(st.nread)
        /\ \A i \in 1..Len(r) :
              /\ r[i].totalBytes = size
              /\ r[i].bytesProcessed = IF i * ChunkLen < size THEN i * ChunkLen
                                       ELSE size
              /\ r[i].bytesProcessed <= r[i].totalBytes
              /\ i > 1 => r[i - 1].bytesProcessed < r[i].bytesProcessed
        /\ (last.res.ok /\ size > 0) =>
              (Len(r) > 0 /\ r[Len(r)].bytesProcessed = size)

\* C19 (as claimed): in encryptFileStream and decryptFileStream the progress
\* callback is invoked once per chunk read with totalBytes the size of the
\* input and bytesProcessed the running sum; the values increase strictly,
\* never exceed totalBytes, the last before a resolution equals totalBytes,
\* and no callback is invoked after the promise has settled.
C19_NoReportAfterSettled ==
    StreamCall =>
        /\ ReportsInOrder
        /\ \A i \in 1..Len(last.stream.reports) : ~last.stream.reports[i].settled

\* C19 (amended): the same, except that callbacks go on for the chunks read
\* after an 'error' of the write stream has rejected the promise; none is
\* invoked after a resolution or after a rejection by the read stream or
\* the decipher.
C19_ReportsUnlessWriteFailed ==
    StreamCall =>
        /\ ReportsInOrder
        /\ \A i \in 1..Len(last.stream.reports) :
              last.stream.reports[i].settled =>
                  /\ ~last.res.ok
                  /\ last.stream.wstate = "failed"
                  /\ last.res.err = IF last.stream.decrypt
                                    THEN DecryptionError("FILE_ERROR")
                                    ELSE PlainError("Failed to write output file")

\* a file of two chunks went through decryptFileStream, which reported 1 of
\* 2 and 2 of 2 and then resolved
C19_Witness ==
    /\ StreamCall
    /\ last.stream.decrypt
    /\ last.res.ok
    /\ Len(last.stream.reports) = Chunks(last.stream.total)
    /\ Len(last.stream.reports) > 1
    /\ last.stream.reports[1].bytesProcessed < last.stream.reports[2].bytesProcessed
    /\ last.stream.reports[Len(last.stream.reports)].bytesProcessed
         = last.stream.total
    /\ \A i \in 1..Len(last.stream.reports) : ~last.stream.reports[i].settled

\* a file system on which nothing fails
FsWorks == [mkdir |-> TRUE, write |-> "ok", unlink |-> TRUE]

\* the whole-buffer paths on the input of the encryptFileStream call:
\* encryptBufferRaw on the bytes of the file, encryptFile on the file
WholeBufferRaw ==
    encryptBufferRaw(last.data, last.password, last.salt, last.iv, 0)

WholeFile ==
    encryptFile(disk, last.inputPath, OutPath, last.password, last.salt,
                last.iv, 0, FsWorks)

\* the decryptFileStream call was given the file and the metadata of the
\* stored encryptFileStream call, as that call left them
StreamRoundTrip ==
    /\ last.op = "decryptFileStream"
    /\ cur.op = "encryptFileStream"
    /\ cur.res.ok
    /\ last.attack = NoAttack
    /\ last.password = cur.password
    /\ last.inputPath = cur.outputPath
    /\ readFileSync(disk, cur.outputPath) = EncryptedBytes(cur)

\* C17: with the same password and the same explicit salt and iv,
\* encryptFileStream and the whole-buffer paths (encryptBufferRaw,
\* encryptFile) produce the same ciphertext bytes and the same authTag for
\* the same plaintext, and the output decrypts through decryptFile,
\* decryptFileStream and decryptBufferRaw to the original bytes.
C17_StreamEqualsWholeBuffer ==
    /\ (/\ last.op = "encryptFileStream"
        /\ last.res.ok
        /\ last.salt.given
        /\ last.iv.given)
         => /\ WholeBufferRaw.ok
            /\ WholeFile.res.ok
            /\ readFileSync(disk, last.outputPath) = WholeBufferRaw.raw.cipherBytes
            /\ readFileSync(disk, last.outputPath)
                 = readFileSync(WholeFile.disk, OutPath)
            /\ fromBase64(last.res.metadata.authTag) = WholeBufferRaw.raw.authTag
            /\ last.res.metadata.authTag = WholeFile.res.metadata.authTag
            /\ last.res.metadata.salt = WholeFile.res.metadata.salt
            /\ last.res.metadata.iv = WholeFile.res.metadata.iv
    /\ (StreamRoundTrip /\ last.res.ok)
         => /\ readFileSync(disk, last.outputPath) = cur.data
            /\ last.res.size = Len(cur.data)
            /\ decryptBufferRaw(StoredRaw(cur, disk), last.password).data = cur.data
            /\ readFileSync(decryptFile(disk, last.inputPath, InPath, last.subject,
                                        last.password, FsWorks).disk, InPath)
                 = cur.data

\* a file of two chunks, encrypted by encryptFileStream to the bytes and the
\* tag encryptBufferRaw gives, came back through decryptFileStream
C17_Witness ==
    /\ StreamRoundTrip
    /\ last.res.ok
    /\ Len(cur.data) > ChunkLen
    /\ readFileSync(disk, last.outputPath) = cur.data
    /\ readFileSync(disk, cur.outputPath)
         = encryptBufferRaw(cur.data, cur.password, cur.salt, cur.iv, 0).raw.cipherBytes
    /\ fromBase64(cur.res.metadata.authTag)
         = encryptBufferRaw(cur.data, cur.password, cur.salt, cur.iv, 0).raw.authTag

EncryptOps ==
    {"encryptBuffer", "encryptBufferRaw", "encryptFile", "encryptFileStream",
     "encryptText"}

\* the call is rejected for its password and nothing else has happened
RejectedForPassword(call) ==
    /\ ~call.res.ok
    /\ call.res.err.cls = "Error"
    /\ call.res.err.msg
         = IF Len(call.password) = 0 THEN "Password must be a non-empty string."
           ELSE "Password must be at least 8 characters long for adequate security."
    /\ call.res.derives = 0
    /\ call.res.keyDerived = <<>>
    /\ call.res.draws = 0
    /\ ~call.res.wrote
    /\ ~call.stream.active

\* C15: every encrypt entry point (encryptBuffer, encryptBufferRaw,
\* encryptFile, encryptFileStream, encryptText) rejects an empty password and
\* any password of fewer than 8 characters, before it reads its input,
\* derives a key or creates an output file: the call leaves the files and
\* the random source as they were.
C15_WeakPasswordRejected ==
    [][(last.op = "none" /\ last'.op \in EncryptOps /\ Len(last'.password) < 8)
         => (/\ RejectedForPassword(last')
             /\ disk' = disk
             /\ rng' = rng)]_vars

\* encryptFileStream was given a directory as its input and "passwor", and
\* was rejected for the password
C15_Witness ==
    /\ last.op = "encryptFileStream"
    /\ last.password = Pw7
    /\ last.inputPath = OutDir
    /\ RejectedForPassword(last)
    /\ ~existsSync(disk, EncPath)

DecryptOps ==
    {"decryptBuffer", "decryptBufferRaw", "decryptFile", "decryptFileStream",
     "decryptText"}

\* C14: every failure of a decrypt entry point (decryptBuffer,
\* decryptBufferRaw, decryptFile, decryptFileStream, decryptText), whatever
\* the record, the metadata and the password, is a DecryptionError with one
\* of the seven codes; no untyped error escapes.
C14_TypedErrors ==
    (last.op \in DecryptOps /\ ~last.res.ok /\ Settled(last)) =>
        /\ last.res.err.cls = "DecryptionError"
        /\ last.res.err.code \in DecryptionErrorCode

\* C16: every record an encrypt operation returns (encryptBuffer,
\* encryptBufferRaw, encryptFile, encryptFileStream), whatever the accepted
\* options, injected salt and iv included, has a salt of 16 bytes, an iv of
\* 12, an authTag of 16 and the supported version, and is accepted by
\* validatePayload.
C16_RecordsWellFormed ==
    (last.op \in EncryptOps /\ last.op # "encryptText" /\ last.res.ok) =>
        LET raw == StoredRaw(last, disk)
        IN  /\ Len(raw.salt) = 16
            /\ Len(raw.iv) = 12
            /\ Len(raw.authTag) = 16
            /\ raw.version = ENCRYPTION_FORMAT_VERSION
            /\ validatePayload(PayloadOf(raw)) = ""

\* C21: deriveKeyAdvanced of either module fails, and gives no key, whenever
\* iterations < 1 or keyLength < 1, whatever the password, salt and digest.
C21_AdvancedRejectsBadParams ==
    (/\ last.op = "deriveKeyAdvanced"
     /\ (last.params.iterations < 1 \/ last.params.keyLength < 1))
    => ~last.res.ok

\* the paths a call cannot read a file from: nothing there, or a directory
UnreadablePaths ==
    { p \in Paths : Entry(disk, p).kind # "file" }

\* the call failed without deriving a key and left every file as it was
FailedEarly(out) ==
    /\ ~out.res.ok
    /\ out.res.err.cls # "none"
    /\ out.res.derives = 0
    /\ out.res.keyDerived = <<>>
    /\ ~out.res.wrote
    /\ out.disk = disk

\* the metadata a caller holds
HeldMetadata ==
    IF cur.op = "encryptFile" THEN cur.res.metadata ELSE NoMetadata

\* what the four file operations do with an input path that is unreadable,
\* called by an idle caller on the files as they are
EncryptUnreadable ==
    \A inputPath \in UnreadablePaths, outputPath \in {EncPath, OutPath},
       password \in Passwords, env \in FsOutcomes :
        /\ FailedEarly(encryptFile(disk, inputPath, outputPath, password,
                                   Omitted, Omitted, rng, env))
        /\ FailedEarly(encryptFileStream(disk, inputPath, outputPath, password,
                                         Omitted, Omitted, rng, env))
        /\ ~encryptFileStream(disk, inputPath, outputPath, password,
                              Omitted, Omitted, rng, env).stream.active

DecryptUnreadable(codes) ==
    \A inputPath \in UnreadablePaths, outputPath \in {EncPath, OutPath},
       password \in DecryptPasswords, env \in FsOutcomes :
        LET whole == decryptFile(disk, inputPath, outputPath, HeldMetadata,
                                 password, env)
            piped == decryptFileStream(disk, inputPath, outputPath, HeldMetadata,
                                       password, env)
        IN  /\ FailedEarly(whole)
            /\ FailedEarly(piped)
            /\ ~piped.stream.active
            /\ whole.res.err.cls = "DecryptionError"
            /\ piped.res.err.cls = "DecryptionError"
            /\ whole.res.err.code = codes[Len(password) = 0]
            /\ piped.res.err.code = codes[Len(password) = 0]

\* C22 as stated: a whole-file or streaming operation whose input path does
\* not exist or is no regular file fails before any key derivation and leaves
\* outputPath as it was; decryptFile and decryptFileStream fail with a
\* DecryptionError FILE_ERROR.
C22_UnreadableInputIsFileError ==
    last.op = "none" =>
        /\ EncryptUnreadable
        /\ DecryptUnreadable([b \in BOOLEAN |-> "FILE_ERROR"])

\* C22 amended: the same, the code being FILE_ERROR when the password is
\* not empty and MISSING_FIELDS, of the password check that runs first,
\* when it is.
C22_UnreadableInputFailsEarly ==
    last.op = "none" =>
        /\ EncryptUnreadable
        /\ DecryptUnreadable([b \in BOOLEAN |->
                               IF b THEN "MISSING_FIELDS" ELSE "FILE_ERROR"])

\* decryptFile was given a directory for input while a decrypted file lay at
\* outputPath: FILE_ERROR, no key derived, the file still there
C22_Witness ==
    /\ last.op = "decryptFile"
    /\ Entry(disk, last.inputPath).kind = "dir"
    /\ last.res.err = DecryptionError("FILE_ERROR")
    /\ last.res.derives = 0
    /\ Entry(disk, last.outputPath).kind = "file"

Alone(call) ==
    PairRun([call EXCEPT !.data = <<>>], Encrypted.disk, FsReady)

\* the settled call has the result, the key and the output file it would
\* have had alone
AsIfAlone(call) ==
    Settled(call) =>
        /\ call.res.ok = Alone(call).res.ok
        /\ call.res.err = Alone(call).res.err
        /\ call.res.verified = Alone(call).res.verified
        /\ call.res.size = Alone(call).res.size
        /\ call.res.metadata = Alone(call).res.metadata
        /\ call.res.keyDerived = Alone(call).res.keyDerived
        /\ call.res.keyFinal = Alone(call).res.keyFinal
        /\ call.res.ok =>
              Entry(disk, call.outputPath) = Entry(Alone(call).disk, call.outputPath)

C25_StreamKeyWiped ==
    (/\ last.op \in {"encryptFileStream", "decryptFileStream"}
     /\ Settled(last)
     /\ last.res.derives > 0
     /\ last.res.keyDerived # <<>>)
    => AllZero(last.res.keyFinal)

\* C26: when decryptFileStream fails with a read error or a write error
\* after the output file has been created, the partial output is deleted
\* before the FILE_ERROR rejection reaches the caller: no file exists at
\* outputPath after a failed streaming decrypt.
C26_NoOutputAfterStreamError ==
    (/\ last.op = "decryptFileStream"
     /\ last.stream.active
     /\ last.res.err = DecryptionError("FILE_ERROR"))
    => ~existsSync(disk, last.outputPath)

\* C27: encryptFileStream reads the authentication tag and resolves with its
\* metadata only after the cipher has finished and writeStream has emitted
\* 'finish', that is after every ciphertext byte has been handed to the
\* output file; the tag is never one computed over a prefix of the input,
\* and the call never resolves after it has rejected.
C27_ResolvesAfterFinish ==
    (last.op = "encryptFileStream" /\ last.stream.active) =>
        /\ last.res.ok =>
              /\ last.res.err = NoError
              /\ last.stream.rstate = "ended"
              /\ last.stream.cstate = "ended"
              /\ last.stream.wstate = "finished"
              /\ last.stream.total = Len(last.data)
              /\ last.stream.nread = last.stream.total
              /\ last.stream.nwritten = last.stream.total
              /\ Len(readFileSync(disk, last.outputPath)) = Len(last.data)
              /\ fromBase64(last.res.metadata.authTag)
                   = GcmTag(last.stream.ckey, last.stream.iv,
                            readFileSync(disk, last.outputPath))
        /\ last.stream.wstate = "finished" => last.res.ok
        /\ last.res.err.cls # "none" => ~last.res.ok

\* encryptFileStream has resolved for a file of more than one chunk, all of
\* whose ciphertext is in the output file
C27_Witness ==
    /\ last.op = "encryptFileStream"
    /\ last.res.ok
    /\ Len(last.data) > ChunkLen
    /\ last.stream.wstate = "finished"
    /\ Len(readFileSync(disk, last.outputPath)) = Len(last.data)

\* C28: once its streams are piped, a decryptFileStream call settles in the
\* end, and once: with the events of the streams delivered fairly, one of
\* finish (resolve), read error, write error and decipher error decides the
\* outcome, which no later handler changes, and verified: true is delivered
\* only when the decipher has completed without error.
C28_SettlesOnce ==
    /\ (last.op = "decryptFileStream" /\ last.stream.active)
          ~> (last.op = "decryptFileStream" /\ Settled(last))
    /\ [][(last.op = "decryptFileStream" /\ Settled(last) /\ last'.op # "none")
            => /\ last'.res.ok = last.res.ok
               /\ last'.res.err = last.res.err
               /\ last'.res.verified = last.res.verified
               /\ last'.res.size = last.res.size]_vars
    /\ [](last.op = "decryptFileStream" =>
            /\ ~(last.res.ok /\ last.res.err.cls # "none")
            /\ last.res.verified =>
                  /\ last.res.ok
                  /\ last.stream.cstate = "ended"
                  /\ last.stream.wstate = "finished")

\* the call was rejected with FILE_ERROR when writeStream failed, and the
\* decipher 'error' handler has run after that without changing the outcome
C28_Witness ==
    /\ last.op = "decryptFileStream"
    /\ last.stream.wstate = "failed"
    /\ last.stream.cstate = "error"
    /\ last.res.err = DecryptionError("FILE_ERROR")
    /\ ~StreamBusy(last.stream)

\* C29: a decryptFile or decryptFileStream call that fails never removes or
\* changes a file at outputPath that it did not create: a file that was at
\* outputPath before the call, or that another call wrote and reported as
\* verified, is still there with the same content after the failure.
C29_FailureKeepsEarlierOutput ==
    [][(/\ last.op = "none"
        /\ last'.op \in {"decryptFile", "decryptFileStream"}
        /\ ~last'.res.ok
        /\ last'.res.err.cls # "none"
        /\ isFile(disk, last'.outputPath))
       => Entry(disk', last'.outputPath) = Entry(disk, last'.outputPath)]_vars

====
